---- MODULE Spec2Model ----
(***************************************************************************)
(* AeroSense: weather fusion (unifiedWeatherService, aviationWeatherService,*)
(* windborneService), the flight acquisition chain (openskyService) and    *)
(* the approach classifier (utils/aviation).                                *)
(*                                                                         *)
(* Time is counted in ticks of 30 seconds, so that the rounding of         *)
(* calculateDataAge (Math.round of minutes) is visible.  Coordinates are   *)
(* counted in tenths of a degree, distances in metres (km side) and in     *)
(* thousandths of a nautical mile (nm side).                                *)
(***************************************************************************)
EXTENDS Integers, Sequences, FiniteSets, Bags, TLC

VARIABLES
    now,              \* wall clock, in ticks of 30 s
    sourcePreference, \* 'metar' | 'windborne' | 'hybrid'
    metarData,        \* getUnifiedWeather / mergeWeatherData: the live sample or null
    windborneData,    \* the historical response or null
    metarMetadata,    \* [metarAttempted, metarUnavailable]
    response,         \* what the operation returned (a result, null) or the error thrown
    wpc,              \* "start" before the operation ran, "done" after
    station,          \* the station requests are made for: how its live identifier resolves
    memoryCache,      \* cache.js: key -> {data, expiry}
    liveUpstream,     \* what the live provider answered in the last request
    histUpstream,     \* what the historical provider answered in the last request
    weatherHttp       \* the status weatherController.getWeather answered, 0 before

weatherVars == <<now, sourcePreference, metarData, windborneData, metarMetadata,
                 response, wpc, station, memoryCache, liveUpstream, histUpstream,
                 weatherHttp>>

VARIABLES
    fpc,            \* the chain's position: "idle", "direct", "urlauth", "proxy", "adsb", "done"
    proxyIndex,     \* tryFetchOpenSky: the proxy the for-loop is at
    credentials,    \* OPENSKY_CLIENT_ID and OPENSKY_CLIENT_SECRET are set
    point,          \* getFlights(lat, lng): the station
    errors,         \* tryFetchOpenSky: the errors array (methods that failed)
    primaryAnswer,  \* what the primary provider answered the direct call
    fetched,        \* what tryFetchOpenSky returned, and which step supplied it
    flightsResult,  \* how getFlights ended: a returned list or a thrown object
    http            \* the answer of flightController.getFlights

flightVars == <<fpc, proxyIndex, credentials, point, errors, primaryAnswer,
                fetched, flightsResult, http>>

VARIABLES
    spc,            \* "start" before the scorer ran, "done" after
    weatherPoint,   \* calculateLandingSafety(weatherPoint) / calculateFlightRisk(., weatherData)
    flight,         \* calculateFlightRisk(flight, .): the flight, or null
    assessment,     \* what calculateLandingSafety returned
    flightRisk      \* what calculateFlightRisk returned

scoreVars == <<spc, weatherPoint, flight, assessment, flightRisk>>

VARIABLES
    apc,            \* "start" before filterApproachingFlights ran, "done" after
    flights,        \* filterApproachingFlights(flights, ., .)
    target,         \* the station flights are classified against
    options,        \* the options handed to isFlightApproaching
    entry,          \* one flight with what isFlightApproaching returned for it
    approaching     \* what filterApproachingFlights returned

approachVars == <<apc, flights, target, options, entry, approaching>>

VARIABLES
    lastFetch       \* the last call of a cached fetcher: key, upstream call, value

VARIABLES
    selectedStation,   \* App state: the normalized station, or null
    stateWeatherData,  \* App state weatherData: the last payload set, or null
    timeIndex,         \* App state: index of the point shown
    compareIndexA,     \* App state: compare view, first index
    compareIndexB,     \* App state: compare view, second index
    pendingWeather     \* weather requests awaiting their response: a bag of station ids

appVars == <<selectedStation, stateWeatherData, timeIndex, compareIndexA,
             compareIndexB, pendingWeather>>

otherVars == <<scoreVars, approachVars, lastFetch, appVars>>

vars == <<weatherVars, flightVars, scoreVars, approachVars, lastFetch, appVars>>

(***************************************************************************)
(* JavaScript values.  A value that may be null / undefined is a record    *)
(* with a type tag, so that the code's null checks can be written down.    *)
(***************************************************************************)
Nul == [t |-> "null", v |-> 0]
Undef == [t |-> "undefined", v |-> 0]
Num(n) == [t |-> "number", v |-> n]
IsNum(x) == x.t = "number"

\* x || d on a nullable number: 0, null and undefined are falsy
OrElse(x, d) == IF IsNum(x) /\ x.v # 0 THEN x ELSE d

\* the scorer, the classifier and the cached fetchers before any call
ScoreIdle ==
    /\ spc = "idle"
    /\ weatherPoint = Nul
    /\ flight = Nul
    /\ assessment = Nul
    /\ flightRisk = Nul

ApproachIdle ==
    /\ apc = "idle"
    /\ flights = <<>>
    /\ target = Nul
    /\ options = Nul
    /\ entry = Nul
    /\ approaching = <<>>

NoFetch == [key |-> "none", at |-> 0, held |-> [t |-> "absent"], upstream |-> "none",
            kind |-> "none", raw |-> <<>>, value |-> Nul]

FetchIdle == lastFetch = NoFetch

\* the client App as mounted: the useState initial values, no request sent
AppIdle ==
    /\ selectedStation = Nul
    /\ stateWeatherData = Nul
    /\ timeIndex = -1
    /\ compareIndexA = Nul
    /\ compareIndexB = Nul
    /\ pendingWeather = EmptyBag

(***************************************************************************)
(* Bounds and program constants                                            *)
(***************************************************************************)
MaxPoints == 2        \* longest historical series drawn
MergeNow == 100       \* the clock of the pure-function specification

MaxClock == 12        \* the clock of the service specification stops here

RealTimeLimit == 30   \* minutes: "age < 30" in the fusion
MetarTtl == 120       \* seconds: setCache(cacheKey, ..., 120)
MetarCacheFresh == 3  \* minutes: "age < 3" on a cached live sample
HistoricalTtl == 300  \* seconds: setCache(cacheKey, weatherData, 300)
StationsTtl == 86400  \* seconds: setCache(cacheKey, stations, 86400)
MaxPending == 3       \* most weather requests of the client awaiting a response
MaxCacheClock == 12   \* the clock of the cache specification runs to here, and
                      \* from one tick before the station directory expires
TempUpper == 150      \* pt.temperature < 150
TempLower == -100     \* pt.temperature > -100
NearbyKm == 50        \* if (distance > 50) return null
CeilingM == 5000      \* if (f.altitude >= 5000) return false
MaxFlights == 2       \* most state vectors in one payload

\* ages (in ticks) the drawn samples have: 0 and 30 s, 10 min, both sides of
\* the 30 min limit (29 min, 29.5 min, 30 min, 30.5 min), 45 min
SampleAges == {0, 1, 20, 58, 59, 60, 61, 90}

(***************************************************************************)
(* unifiedWeatherService                                                   *)
(***************************************************************************)
\* Math.round((now - dataTime) / 1000 / 60) with 2 ticks to the minute:
\* Math.round rounds halves up.  A missing timestamp gives null.
calculateDataAge(timestamp, n) ==
    IF ~IsNum(timestamp) THEN Nul
    ELSE Num(((n - timestamp.v) + 1) \div 2)

\* a point of the series: the fields the fusion and the normalization look at
Point(ts, temp, src) == [timestamp |-> Num(ts), temperature |-> temp, source |-> src]

\* {...sample, source, dataAge, isRealTime}
Annotated(sample, src, age, rt) ==
    [timestamp |-> sample.timestamp, temperature |-> sample.temperature,
     source |-> src, dataAge |-> age, isRealTime |-> rt]

getMostRecentWindBornePoint(wb, n) ==
    IF wb = Nul \/ Len(wb.points) = 0 THEN Nul
    ELSE LET latest == wb.points[Len(wb.points)]
             age == calculateDataAge(latest.timestamp, n)
         IN Annotated(latest, "WindBorne", age,
                      age # Nul /\ age.v < RealTimeLimit)

\* .sort((a, b) => new Date(a.timestamp) - new Date(b.timestamp)): a stable
\* sort, so an element lands after every earlier element whose timestamp is
\* not later than its own
RECURSIVE InsertByTimestamp(_, _)
InsertByTimestamp(points, p) ==
    IF points = <<>> THEN <<p>>
    ELSE IF Head(points).timestamp.v > p.timestamp.v THEN <<p>> \o points
    ELSE <<Head(points)>> \o InsertByTimestamp(Tail(points), p)

RECURSIVE SortByTimestamp(_)
SortByTimestamp(points) ==
    IF points = <<>> THEN <<>>
    ELSE InsertByTimestamp(SortByTimestamp(SubSeq(points, 1, Len(points) - 1)),
                           points[Len(points)])

MetarFresh(md, n) ==
    LET metarAge == IF md # Nul THEN calculateDataAge(md.timestamp, n) ELSE Nul
    IN md # Nul /\ metarAge # Nul /\ metarAge.v < RealTimeLimit

\* a plausible slip: a stale live sample is preferred over fresh historical data
SelectPrimary_StaleLiveFirst(fresh, windborneLatest, md) ==
    IF fresh THEN 1
    ELSE IF md # Nul THEN 3
    ELSE IF windborneLatest # Nul /\ windborneLatest.isRealTime THEN 2
    ELSE IF windborneLatest # Nul THEN 4
    ELSE 5

\* the if / else-if chain of mergeWeatherData: which branch supplies `current`
SelectPrimary(fresh, windborneLatest, md) ==
    IF fresh THEN 1
    ELSE IF windborneLatest # Nul /\ windborneLatest.isRealTime THEN 2
    ELSE IF md # Nul THEN 3
    ELSE IF windborneLatest # Nul THEN 4
    ELSE 5

mergeWeatherData(md, wb, meta, n) ==
    LET metarAge == IF md # Nul THEN calculateDataAge(md.timestamp, n) ELSE Nul
        windborneLatest == getMostRecentWindBornePoint(wb, n)
        fresh == MetarFresh(md, n)
        branch == SelectPrimary(fresh, windborneLatest, md)
        currentPoint == CASE branch = 1 -> Annotated(md, "METAR", metarAge, TRUE)
                          [] branch = 2 -> windborneLatest
                          [] branch = 3 -> Annotated(md, "METAR", metarAge, FALSE)
                          [] OTHER -> windborneLatest
        source == CASE branch = 1 -> "hybrid"
                    [] branch = 2 -> "WindBorne"
                    [] branch = 3 -> "METAR"
                    [] OTHER -> "WindBorne"
        histPoints == IF wb # Nul THEN wb.points ELSE <<>>
    IN IF branch = 5 THEN Nul
       ELSE [t |-> "weather",
             points |-> IF fresh
                        THEN SortByTimestamp(Append(histPoints,
                                 [timestamp |-> md.timestamp,
                                  temperature |-> md.temperature,
                                  source |-> "METAR"]))
                        ELSE histPoints,
             current |-> currentPoint,
             source |-> source,
             dataAge |-> currentPoint.dataAge,
             isRealTime |-> branch \in {1, 2},
             metarAttempted |-> meta.metarAttempted,
             metarUnavailable |-> meta.metarUnavailable]

\* weatherController.getWeather, from the call of the service on: null is
\* answered 404, a result 200, the error 'Rate limit exceeded' 429, and any
\* other error goes to the error middleware (500)
getWeather(outcome) ==
    IF outcome.kind = "throw"
    THEN IF outcome.message = "Rate limit exceeded" THEN 429 ELSE 500
    ELSE IF outcome.value = Nul THEN 404 ELSE 200

(***************************************************************************)
(* Inputs of the fusion                                                    *)
(***************************************************************************)
\* strictly increasing series of at most k stamps out of S
RECURSIVE SeriesOver(_, _)
SeriesOver(S, k) ==
    IF k = 0 THEN {<<>>}
    ELSE LET shorter == SeriesOver(S, k - 1)
         IN shorter \cup
            {Append(s, Point(ts, Num(70), "none")) : <<s, ts>> \in
                {q \in shorter \X S :
                    /\ Len(q[1]) = k - 1
                    /\ (q[1] = <<>> \/ q[1][Len(q[1])].timestamp.v < q[2])}}

HistoricalResponses(n) ==
    {[t |-> "windborne", points |-> s] :
        s \in SeriesOver({n - a : a \in SampleAges}, MaxPoints)}

LiveSamples(n) ==
    {[t |-> "metar", timestamp |-> Num(n - a), temperature |-> Num(59)] :
        a \in SampleAges}
        \cup {[t |-> "metar", timestamp |-> Undef, temperature |-> Num(59)]}

Metadata == [metarAttempted : BOOLEAN, metarUnavailable : BOOLEAN]

(***************************************************************************)
(* cache.js (in-memory store)                                              *)
(***************************************************************************)
CacheKeys == {"metar:icao", "metar:coords", "windborne:weather", "windborne:stations"}
NoEntry == [t |-> "absent"]
EmptyCache == [k \in CacheKeys |-> NoEntry]

\* a plausible slip: the expiry of the entry is not looked at
getCache_NoExpiry(cache, key, n) ==
    LET item == cache[key]
    IN IF item.t = "entry" THEN item.data ELSE Nul

\* item && item.expiry > Date.now() ? item.data : null
getCache(cache, key, n) ==
    LET item == cache[key]
    IN IF item.t = "entry" /\ item.expiry > n THEN item.data ELSE Nul

\* expiry: Date.now() + ttlSeconds * 1000, in ticks of 30 s
setCache(cache, key, data, ttlSeconds, n) ==
    [cache EXCEPT ![key] = [t |-> "entry", data |-> data,
                            expiry |-> n + (ttlSeconds \div 30)]]

(***************************************************************************)
(* aviationWeatherService                                                  *)
(***************************************************************************)
\* what the live provider can answer: a METAR text, an empty body, or an
\* error (network failure, timeout, HTTP error status)
LiveOutcomes == {"ok", "empty", "error"}

\* a plausible slip: the sample is stamped with the observation time of the
\* report, which is up to an hour old (hours: 1); here 30.5 min
LiveSample_ObservationTime(n) ==
    [t |-> "metar", timestamp |-> Num(n - 61), temperature |-> Num(59)]

\* the sample built from a parsed METAR: stamped with the time of the fetch
LiveSample(n) == [t |-> "metar", timestamp |-> Num(n), temperature |-> Num(59)]

\* a cached {data, timestamp} is used when (Date.now() - timestamp) / 1000 / 60 < 3
CachedLiveUsable(cached, n) ==
    cached # Nul /\ (n - cached.timestamp) * 30 < MetarCacheFresh * 60

FetchLive(cache, key, n, outcome) ==
    LET cached == getCache(cache, key, n)
    IN IF CachedLiveUsable(cached, n)
       THEN [value |-> cached.data, cache |-> cache, upstream |-> "notcalled"]
       ELSE IF outcome = "ok"
       THEN [value |-> LiveSample(n),
             cache |-> setCache(cache, key,
                                [data |-> LiveSample(n), timestamp |-> n],
                                MetarTtl, n),
             upstream |-> "ok"]
       ELSE [value |-> Nul, cache |-> cache, upstream |-> outcome]

getMETAR(cache, n, outcome) == FetchLive(cache, "metar:icao", n, outcome)

getMETARByCoordinates(cache, n, outcome) == FetchLive(cache, "metar:coords", n, outcome)

(***************************************************************************)
(* windborneService                                                        *)
(***************************************************************************)
ValidTemperature(pt) ==
    /\ pt.temperature # Nul
    /\ pt.temperature.v < TempUpper
    /\ pt.temperature.v > TempLower

\* what the historical provider can answer
\*   ok           200 with a payload that passes WeatherResponseSchema
\*   malformed    200 with a payload that fails WeatherResponseSchema
\*   badjson      200 with a string that is not JSON
\*   notfound     404 / 400
\*   ratelimited  429
\*   error        network failure, timeout, other status
HistFailures == {"malformed", "badjson", "notfound", "ratelimited", "error"}

getHistoricalWeather(cache, n, outcome) ==
    LET cached == getCache(cache, "windborne:weather", n)
    IN IF cached # Nul
       THEN [kind |-> "return", value |-> cached, cache |-> cache,
             upstream |-> "notcalled"]
       ELSE IF outcome.kind = "ok"
       THEN LET weatherData ==
                    [t |-> "windborne",
                     points |-> SortByTimestamp(SelectSeq(outcome.points,
                                                          ValidTemperature))]
            IN [kind |-> "return", value |-> weatherData,
                cache |-> setCache(cache, "windborne:weather", weatherData,
                                   HistoricalTtl, n),
                upstream |-> "ok"]
       ELSE IF outcome.kind = "notfound"
       THEN [kind |-> "return", value |-> Nul, cache |-> cache,
             upstream |-> outcome.kind]
       ELSE [kind |-> "throw",
             value |-> CASE outcome.kind = "ratelimited" -> "Rate limit exceeded"
                         [] outcome.kind = "badjson" -> "Invalid response format from API"
                         [] OTHER -> "Failed to fetch weather data",
             cache |-> cache, upstream |-> outcome.kind]

(***************************************************************************)
(* getUnifiedWeather                                                       *)
(***************************************************************************)
\* how the station's identifier resolves (stationMapper.getICAOCode and the
\* stationInfo handed in by the controller)
\*   icao    getICAOCode gives a 4-letter code
\*   coords  no code, stationInfo has lat and lng
\*   bare    no code, no usable stationInfo
StationKinds == {"icao", "coords", "bare"}

\* a plausible slip: a live fetch that gives no sample is not recorded as unavailable
LiveAttempt_ForgetsUnavailable(pref, st, cache, n, outcome) ==
    IF pref \notin {"metar", "hybrid"}
    THEN [metarData |-> Nul, cache |-> cache, upstream |-> "notcalled",
          meta |-> [metarAttempted |-> FALSE, metarUnavailable |-> FALSE]]
    ELSE IF st = "icao"
    THEN LET r == getMETAR(cache, n, outcome)
         IN [metarData |-> r.value, cache |-> r.cache, upstream |-> r.upstream,
             meta |-> [metarAttempted |-> TRUE, metarUnavailable |-> FALSE]]
    ELSE IF st = "coords"
    THEN LET r == getMETARByCoordinates(cache, n, outcome)
         IN [metarData |-> r.value, cache |-> r.cache, upstream |-> r.upstream,
             meta |-> [metarAttempted |-> TRUE, metarUnavailable |-> TRUE]]
    ELSE [metarData |-> Nul, cache |-> cache, upstream |-> "notcalled",
          meta |-> [metarAttempted |-> TRUE, metarUnavailable |-> TRUE]]

\* lines 145-181: the live attempt
LiveAttempt(pref, st, cache, n, outcome) ==
    IF pref \notin {"metar", "hybrid"}
    THEN [metarData |-> Nul, cache |-> cache, upstream |-> "notcalled",
          meta |-> [metarAttempted |-> FALSE, metarUnavailable |-> FALSE]]
    ELSE IF st = "icao"
    THEN LET r == getMETAR(cache, n, outcome)
         IN [metarData |-> r.value, cache |-> r.cache, upstream |-> r.upstream,
             meta |-> [metarAttempted |-> TRUE,
                       metarUnavailable |-> (r.value = Nul)]]
    ELSE IF st = "coords"
    THEN LET r == getMETARByCoordinates(cache, n, outcome)
         IN [metarData |-> r.value, cache |-> r.cache, upstream |-> r.upstream,
             meta |-> [metarAttempted |-> TRUE, metarUnavailable |-> TRUE]]
    ELSE [metarData |-> Nul, cache |-> cache, upstream |-> "notcalled",
          meta |-> [metarAttempted |-> TRUE, metarUnavailable |-> TRUE]]

\* lines 183-190: the historical attempt; a throw is caught and logged
HistAttempt(pref, cache, n, outcome) ==
    IF pref \notin {"windborne", "hybrid"}
    THEN [windborneData |-> Nul, cache |-> cache, upstream |-> "notcalled"]
    ELSE LET r == getHistoricalWeather(cache, n, outcome)
         IN [windborneData |-> IF r.kind = "return" THEN r.value ELSE Nul,
             cache |-> r.cache, upstream |-> r.upstream]

\* lines 192-241: the result for the source preference
UnifiedResult(pref, md, wb, meta, n) ==
    IF pref = "metar"
    THEN IF md = Nul THEN Nul
         ELSE LET age == calculateDataAge(md.timestamp, n)
                  rt == age # Nul /\ age.v < RealTimeLimit
                  currentPoint == Annotated(md, "METAR", age, rt)
              IN [t |-> "weather",
                  points |-> <<currentPoint>>,
                  current |-> currentPoint,
                  source |-> "METAR",
                  dataAge |-> age,
                  isRealTime |-> rt,
                  metarAttempted |-> meta.metarAttempted,
                  metarUnavailable |-> meta.metarUnavailable]
    ELSE IF pref = "windborne"
    THEN IF wb = Nul THEN Nul
         ELSE LET latest == getMostRecentWindBornePoint(wb, n)
              IN [t |-> "weather",
                  points |-> wb.points,
                  current |-> latest,
                  source |-> "WindBorne",
                  dataAge |-> IF latest = Nul THEN Nul
                              ELSE OrElse(latest.dataAge, Nul),
                  isRealTime |-> IF latest = Nul THEN FALSE ELSE latest.isRealTime,
                  metarAttempted |-> FALSE,
                  metarUnavailable |-> FALSE]
    ELSE mergeWeatherData(md, wb, meta, n)

(***************************************************************************)
(* openskyService (chain revision): geometry and normalization             *)
(***************************************************************************)
Abs(x) == IF x < 0 THEN -x ELSE x

\* Haversine with R = 6371 km.  Coordinates are tenths of a degree and the
\* result is metres.  On one meridian the great-circle distance is
\* R * dLat (11119 m per tenth of a degree), and on the equator it is
\* R * dLng; the positions drawn below lie on one meridian.
calculateDistanceKm(lat1, lng1, lat2, lng2) ==
    CASE lng1 = lng2 -> Abs(lat2 - lat1) * 11119
      [] lng1 # lng2 /\ lat1 = 0 /\ lat2 = 0 -> Abs(lng2 - lng1) * 11119

\* if (distance > 50) return null
getNearbyDistance(flightLat, flightLng, stationLat, stationLng) ==
    LET distance == calculateDistanceKm(flightLat, flightLng, stationLat, stationLng)
    IN IF distance > NearbyKm * 1000 THEN Nul ELSE Num(distance)

\* the .map callback: null for coordinates that are not numbers or out of range
ToFlight(f, st) ==
    IF ~IsNum(f.lng) \/ ~IsNum(f.lat) THEN Nul
    ELSE IF f.lat.v < -900 \/ f.lat.v > 900 \/ f.lng.v < -1800 \/ f.lng.v > 1800
    THEN Nul
    ELSE [lng |-> f.lng, lat |-> f.lat, altitude |-> f.altitude,
          distanceToStation |-> getNearbyDistance(f.lat.v, f.lng.v, st.lat, st.lng)]

\* x >= k in JavaScript for the values drawn: undefined and a non-numeric
\* string compare as NaN (false), null compares as 0
JsGreaterEq(x, k) ==
    CASE x.t = "number" -> x.v >= k
      [] x.t = "null" -> 0 >= k
      [] OTHER -> FALSE

\* the .filter callback
KeepFlight(f) ==
    /\ f # Nul
    /\ ~(f.lat = Nul \/ f.lng = Nul \/ f.altitude = Nul)
    /\ ~JsGreaterEq(f.altitude, CeilingM)
    /\ f.distanceToStation # Nul

\* (a.distanceToStation || 999): the sort key, in metres
DistanceKey(f) == OrElse(f.distanceToStation, Num(999 * 1000)).v

\* .sort((a, b) => key(a) - key(b)): stable
RECURSIVE InsertByDistanceKey(_, _)
InsertByDistanceKey(fs, f) ==
    IF fs = <<>> THEN <<f>>
    ELSE IF DistanceKey(Head(fs)) > DistanceKey(f) THEN <<f>> \o fs
    ELSE <<Head(fs)>> \o InsertByDistanceKey(Tail(fs), f)

RECURSIVE SortByDistanceKey(_)
SortByDistanceKey(fs) ==
    IF fs = <<>> THEN <<>>
    ELSE InsertByDistanceKey(SortByDistanceKey(SubSeq(fs, 1, Len(fs) - 1)),
                             fs[Len(fs)])

\* lines 605-638
NormalizeFlights(rawFlights, st) ==
    SortByDistanceKey(SelectSeq([i \in 1..Len(rawFlights) |-> ToFlight(rawFlights[i], st)],
                                KeepFlight))

(***************************************************************************)
(* openskyService (chain revision): payloads and validation                *)
(***************************************************************************)
\* a state vector, by the elements the service reads: f[5], f[6], f[7]
Row(lng, lat, alt) == [lng |-> lng, lat |-> lat, altitude |-> alt]

\* the element types FlightSchema allows at these positions: number or null
RowValid(f) == \A x \in {f.lng, f.lat, f.altitude} : x.t \in {"number", "null"}

\* the value of a payload's `states` key
StatesAbsent == [t |-> "absent", rows |-> <<>>]
StatesNull == [t |-> "null", rows |-> <<>>]
StatesNotArray == [t |-> "notarray", rows |-> <<>>]
StatesArray(rows) == [t |-> "array", rows |-> rows]

\* response.data: nothing, a text that is not JSON, or an object with or
\* without the keys `time` and `states`, possibly under a `contents` wrapper
EmptyBody == [shape |-> "empty", wrapped |-> FALSE, hasTime |-> FALSE, states |-> StatesAbsent]
TextBody == [shape |-> "text", wrapped |-> FALSE, hasTime |-> FALSE, states |-> StatesAbsent]
ObjectBody(w, h, st) == [shape |-> "object", wrapped |-> w, hasTime |-> h, states |-> st]

\* OpenSkyResponseSchema.parse succeeds
SchemaValid(data) ==
    /\ data.shape = "object"
    /\ data.hasTime
    /\ \/ data.states.t = "null"
       \/ data.states.t = "array"
          /\ \A i \in 1..Len(data.states.rows) : RowValid(data.states.rows[i])

\* lines 577-593: the states the list is built from, or the parse error
ParseStates(data) ==
    IF SchemaValid(data)
    THEN [ok |-> TRUE, rows |-> data.states.rows]
    ELSE IF data.shape = "object"
    THEN [ok |-> TRUE,
          rows |-> IF data.states.t = "array" THEN data.states.rows ELSE <<>>]
    ELSE [ok |-> FALSE, rows |-> <<>>]

\* an error as the catch blocks see it: error.response is set only for an
\* axios error that carries an HTTP response
PlainError == [response |-> Nul]

\* lines 643-656: the catch block of getFlights
GetFlightsCatch(error) ==
    IF error.response # Nul /\ error.response.status = 429
    THEN [kind |-> "throw", type |-> "RATE_LIMITED",
          retryAfterSeconds |-> error.response.retryAfter, flights |-> <<>>]
    ELSE [kind |-> "return", type |-> "none", retryAfterSeconds |-> Nul,
          flights |-> <<>>]

\* lines 570-642: getFlights once tryFetchOpenSky has returned data
GetFlightsFrom(data, st) ==
    IF data.shape = "empty"
    THEN [kind |-> "return", type |-> "none", retryAfterSeconds |-> Nul,
          flights |-> <<>>]
    ELSE LET parsed == ParseStates(data)
         IN IF parsed.ok
            THEN [kind |-> "return", type |-> "none", retryAfterSeconds |-> Nul,
                  flights |-> NormalizeFlights(parsed.rows, st)]
            ELSE GetFlightsCatch(PlainError)

\* flightController.getFlights: res.json(flights), 429 for RATE_LIMITED, else 500
ControllerAnswer(result) ==
    IF result.kind = "return"
    THEN [status |-> 200, retryAfterSeconds |-> Nul]
    ELSE IF result.type = "RATE_LIMITED"
    THEN [status |-> 429, retryAfterSeconds |-> result.retryAfterSeconds]
    ELSE [status |-> 500, retryAfterSeconds |-> Nul]

(***************************************************************************)
(* openskyService (chain revision): what the providers can answer          *)
(***************************************************************************)
\* state vectors drawn: at the station's meridian, 0 to 78 km away, below,
\* at and above the ceiling, without position, without altitude, out of range
SampleRows ==
    { Row(Num(0), Num(0), Num(1200)),
      Row(Num(0), Num(2), Num(300)),
      Row(Num(0), Num(3), Num(4999)),
      Row(Num(0), Num(3), Num(5000)),
      Row(Num(0), Num(7), Num(1200)),
      Row(Num(0), Num(901), Num(1000)),
      Row(Nul, Nul, Nul),
      Row(Num(0), Num(2), Undef) }

RowSeqs == UNION {[1..m -> SampleRows] : m \in 0..MaxFlights}

StatesValues ==
    {StatesAbsent, StatesNull, StatesNotArray} \cup {StatesArray(rows) : rows \in RowSeqs}

DirectBodies ==
    {EmptyBody, TextBody}
        \cup {ObjectBody(FALSE, h, st) : h \in BOOLEAN, st \in StatesValues}

ProxyBodies ==
    DirectBodies \cup {ObjectBody(TRUE, h, st) : h \in BOOLEAN, st \in StatesValues}

\* the x-rate-limit-retry-after-seconds header: absent, "30", "60"
RetryAfterHeaders == {Undef, Num(30), Num(60)}

\* axios.get: no response at all (timeout, network error), or a response
NetErr == [k |-> "neterr", status |-> 0, retryAfter |-> Undef, body |-> EmptyBody]
Resp(st, ra, b) == [k |-> "response", status |-> st, retryAfter |-> ra, body |-> b]

FailureOutcomes ==
    {NetErr, Resp(503, Undef, EmptyBody)}
        \cup {Resp(429, ra, EmptyBody) : ra \in RetryAfterHeaders}

DirectOutcomes == FailureOutcomes \cup {Resp(200, Undef, b) : b \in DirectBodies}
ProxyOutcomes == FailureOutcomes \cup {Resp(200, Undef, b) : b \in ProxyBodies}

\* validateStatus: (status) => status < 500; axios rejects otherwise
AxiosResolves(o) == o.k = "response" /\ o.status < 500

\* an aircraft of the secondary provider: lat, lon, alt_baro (feet, 'ground' or
\* absent) and alt_geom (feet or absent)
Ground == [t |-> "ground", v |-> 0]
Aircraft(lat, lon, baro, geom) == [lat |-> lat, lon |-> lon, alt_baro |-> baro, alt_geom |-> geom]

SampleAircraft ==
    { Aircraft(Num(2), Num(0), Num(4000), Undef),
      Aircraft(Num(0), Num(0), Ground, Undef),
      Aircraft(Num(3), Num(0), Num(16405), Undef),
      Aircraft(Num(3), Num(0), Undef, Num(16404)),
      Aircraft(Undef, Undef, Num(4000), Undef) }

AircraftSeqs == UNION {[1..m -> SampleAircraft] : m \in 0..MaxFlights}

AdsbOutcomes ==
    {[k |-> "neterr", status |-> 0, hasAc |-> FALSE, ac |-> <<>>],
     [k |-> "response", status |-> 503, hasAc |-> FALSE, ac |-> <<>>],
     [k |-> "response", status |-> 200, hasAc |-> FALSE, ac |-> <<>>]}
        \cup {[k |-> "response", status |-> 200, hasAc |-> TRUE, ac |-> a] :
                a \in AircraftSeqs}

\* feet to metres: x * 0.3048
FeetToMetres(ft) == (ft * 3048) \div 10000

Truthy(x) == x.t = "ground" \/ (x.t = "number" /\ x.v # 0)

\* lines 517-548: an aircraft as a state vector
AircraftToRow(ac) ==
    LET altBaro == IF Truthy(ac.alt_baro) /\ ac.alt_baro # Ground
                   THEN Num(FeetToMetres(ac.alt_baro.v))
                   ELSE IF Truthy(ac.alt_geom)
                   THEN Num(FeetToMetres(ac.alt_geom.v))
                   ELSE Nul
    IN Row(ac.lon, ac.lat, altBaro)

(***************************************************************************)
(* openskyService (chain revision): tryFetchOpenSky step by step           *)
(***************************************************************************)
\* a plausible slip: the list of proxies in another order
ProxyNames_Swapped == <<"corsproxy", "allorigins", "corssh">>

\* PROXY_SERVICES, in list order
ProxyNames == <<"allorigins", "corsproxy", "corssh">>

NoAnswer == [k |-> "none", status |-> 0, retryAfter |-> Undef]
NothingFetched == [step |-> "none", data |-> EmptyBody]
Pending == [kind |-> "pending", type |-> "none", retryAfterSeconds |-> Nul, flights |-> <<>>]
NoHttp == [status |-> 0, retryAfterSeconds |-> Nul]

Stations == {[lat |-> 0, lng |-> 0], [lat |-> 2, lng |-> 0]}

\* tryFetchOpenSky returned `data` from `step`; getFlights and the controller finish
Finish(data, step) ==
    LET result == GetFlightsFrom(data, point)
    IN /\ fetched' = [step |-> step, data |-> data]
       /\ flightsResult' = result
       /\ http' = ControllerAnswer(result)
       /\ fpc' = "done"

\* if (response.status === 200 && response.data) return response.data
DirectSucceeds(o) == AxiosResolves(o) /\ o.status = 200 /\ o.body.shape # "empty"

\* a request arrives: flightController.getFlights calls getFlights(lat, lng)
StartGetFlights ==
    /\ fpc \in {"idle", "done"}
    /\ point' \in Stations
    /\ fpc' = "direct"
    /\ proxyIndex' = 1
    /\ errors' = <<>>
    /\ primaryAnswer' = NoAnswer
    /\ fetched' = NothingFetched
    /\ flightsResult' = Pending
    /\ http' = NoHttp
    /\ UNCHANGED credentials
    /\ UNCHANGED <<weatherVars, otherVars>>

\* Method 1: direct request with the auth header
TryDirect ==
    /\ fpc = "direct"
    /\ \E o \in DirectOutcomes :
        /\ primaryAnswer' = [k |-> o.k, status |-> o.status, retryAfter |-> o.retryAfter]
        /\ IF DirectSucceeds(o)
           THEN Finish(o.body, "direct") /\ UNCHANGED errors
           ELSE /\ errors' = Append(errors, "direct")
                /\ fpc' = "urlauth"
                /\ UNCHANGED <<fetched, flightsResult, http>>
    /\ UNCHANGED <<proxyIndex, credentials, point>>
    /\ UNCHANGED <<weatherVars, otherVars>>

\* Method 2: credentials embedded in the URL; 'No credentials' without them
TryUrlAuth ==
    /\ fpc = "urlauth"
    /\ \E o \in IF credentials THEN DirectOutcomes ELSE {NetErr} :
        IF credentials /\ DirectSucceeds(o)
        THEN Finish(o.body, "url-auth") /\ UNCHANGED errors
        ELSE /\ errors' = Append(errors, "url-auth")
             /\ fpc' = "proxy"
             /\ UNCHANGED <<fetched, flightsResult, http>>
    /\ UNCHANGED <<proxyIndex, credentials, point, primaryAnswer>>
    /\ UNCHANGED <<weatherVars, otherVars>>

\* data = data.contents || data
Unwrap(b) == IF b.shape = "object" THEN ObjectBody(FALSE, b.hasTime, b.states) ELSE b

\* lines 456-485: what a proxy answer must look like to be returned
ProxySucceeds(o) ==
    /\ AxiosResolves(o) /\ o.status = 200 /\ o.body.shape # "empty"
    /\ o.body.shape = "object"
    /\ (o.body.states.t # "absent" \/ o.body.hasTime)

\* Method 3: the relay proxies in list order
TryProxy ==
    /\ fpc = "proxy"
    /\ \E o \in ProxyOutcomes :
        IF ProxySucceeds(o)
        THEN Finish(Unwrap(o.body), ProxyNames[proxyIndex]) /\ UNCHANGED <<errors, proxyIndex>>
        ELSE /\ errors' = Append(errors, ProxyNames[proxyIndex])
             /\ IF proxyIndex < Len(ProxyNames)
                THEN proxyIndex' = proxyIndex + 1 /\ fpc' = "proxy"
                ELSE proxyIndex' = proxyIndex /\ fpc' = "adsb"
             /\ UNCHANGED <<fetched, flightsResult, http>>
    /\ UNCHANGED <<credentials, point, primaryAnswer>>
    /\ UNCHANGED <<weatherVars, otherVars>>

\* Method 4: the secondary provider; when it fails too, tryFetchOpenSky throws
\* 'All OpenSky fetch methods failed' into the catch block of getFlights
TryAdsb ==
    /\ fpc = "adsb"
    /\ \E o \in AdsbOutcomes :
        IF o.k = "response" /\ o.status = 200 /\ o.hasAc
        THEN Finish(ObjectBody(FALSE, TRUE,
                               StatesArray([i \in 1..Len(o.ac) |->
                                              AircraftToRow(o.ac[i])])),
                    "adsb-exchange")
             /\ UNCHANGED errors
        ELSE /\ errors' = Append(errors, "adsb-exchange")
             /\ fetched' = NothingFetched
             /\ flightsResult' = GetFlightsCatch(PlainError)
             /\ http' = ControllerAnswer(GetFlightsCatch(PlainError))
             /\ fpc' = "done"
    /\ UNCHANGED <<proxyIndex, credentials, point, primaryAnswer>>
    /\ UNCHANGED <<weatherVars, otherVars>>

\* the weather service at rest
WeatherIdle ==
    /\ now = 0
    /\ station = "icao"
    /\ memoryCache = EmptyCache
    /\ sourcePreference = "hybrid"
    /\ metarData = Nul
    /\ windborneData = Nul
    /\ metarMetadata = [metarAttempted |-> FALSE, metarUnavailable |-> FALSE]
    /\ response = Nul
    /\ wpc = "start"
    /\ liveUpstream = "notcalled"
    /\ histUpstream = "notcalled"
    /\ weatherHttp = 0

InitFlights ==
    /\ WeatherIdle
    /\ ScoreIdle
    /\ ApproachIdle
    /\ FetchIdle
    /\ AppIdle
    /\ fpc = "idle"
    /\ proxyIndex = 1
    /\ credentials \in BOOLEAN
    /\ point = [lat |-> 0, lng |-> 0]
    /\ errors = <<>>
    /\ primaryAnswer = NoAnswer
    /\ fetched = NothingFetched
    /\ flightsResult = Pending
    /\ http = NoHttp

NextFlights == StartGetFlights \/ TryDirect \/ TryUrlAuth \/ TryProxy \/ TryAdsb

SpecFlights == InitFlights /\ [][NextFlights]_vars

(***************************************************************************)
(* Specification of the pure fusion: mergeWeatherData on drawn arguments   *)
(***************************************************************************)
\* the flight service at rest
FlightsIdle ==
    /\ fpc = "idle"
    /\ proxyIndex = 1
    /\ credentials = FALSE
    /\ point = [lat |-> 0, lng |-> 0]
    /\ errors = <<>>
    /\ primaryAnswer = NoAnswer
    /\ fetched = NothingFetched
    /\ flightsResult = Pending
    /\ http = NoHttp

InitMerge ==
    /\ FlightsIdle
    /\ ScoreIdle
    /\ ApproachIdle
    /\ FetchIdle
    /\ AppIdle
    /\ now = MergeNow
    /\ sourcePreference = "hybrid"
    /\ metarData \in LiveSamples(now) \cup {Nul}
    /\ windborneData \in HistoricalResponses(now) \cup {Nul}
    /\ metarMetadata \in Metadata
    /\ response = Nul
    /\ wpc = "start"
    /\ station = "icao"
    /\ memoryCache = EmptyCache
    /\ liveUpstream = "notcalled"
    /\ histUpstream = "notcalled"
    /\ weatherHttp = 0

MergeWeatherData ==
    /\ wpc = "start"
    /\ response' = mergeWeatherData(metarData, windborneData, metarMetadata, now)
    /\ wpc' = "done"
    /\ UNCHANGED <<now, sourcePreference, metarData, windborneData, metarMetadata,
                   station, memoryCache, liveUpstream, histUpstream, weatherHttp>>
    /\ UNCHANGED <<flightVars, otherVars>>

NextMerge == MergeWeatherData

SpecMerge == InitMerge /\ [][NextMerge]_vars

(***************************************************************************)
(* Specification of the weather service: requests against the providers    *)
(* and the cache, while the clock advances                                 *)
(***************************************************************************)
\* ages (in ticks) of the points the historical provider reports: stamped at
\* the moment of the request, 45 min old
HistAges == {0, 90}
\* temperatures the provider reports: missing, plausible, implausible
HistTemps == {Nul, Num(70), Num(200)}

\* sequences of at most k <<age, temperature>> pairs with distinct ages, in any order
RECURSIVE RawSeries(_, _, _)
RawSeries(S, T, k) ==
    IF k = 0 THEN {<<>>}
    ELSE LET shorter == RawSeries(S, T, k - 1)
         IN shorter \cup
            {Append(q[1], <<q[2], q[3]>>) : q \in
                {r \in shorter \X S \X T :
                    /\ Len(r[1]) = k - 1
                    /\ \A i \in 1..Len(r[1]) : r[1][i][1] # r[2]}}

RawPayloads == RawSeries(HistAges, HistTemps, MaxPoints)

\* the payload as the provider sends it at time n
PayloadAt(raw, n) == [i \in 1..Len(raw) |-> Point(n - raw[i][1], raw[i][2], "none")]

NotCalled == [kind |-> "notcalled", raw |-> <<>>]

\* the answers of the historical provider; it answers only when it is called
HistOutcomes(pref, cache, n) ==
    IF pref \in {"windborne", "hybrid"} /\ getCache(cache, "windborne:weather", n) = Nul
    THEN {[kind |-> "ok", raw |-> s] : s \in RawPayloads}
            \cup {[kind |-> k, raw |-> <<>>] : k \in HistFailures}
    ELSE {NotCalled}

\* the answers of the live provider; it answers only when it is called
LiveOutcomesFor(pref, st, cache, n) ==
    IF /\ pref \in {"metar", "hybrid"}
       /\ st \in {"icao", "coords"}
       /\ ~CachedLiveUsable(getCache(cache, IF st = "icao" THEN "metar:icao"
                                            ELSE "metar:coords", n), n)
    THEN LiveOutcomes
    ELSE {"notcalled"}

InitWeather ==
    /\ FlightsIdle
    /\ ScoreIdle
    /\ ApproachIdle
    /\ FetchIdle
    /\ AppIdle
    /\ now = 0
    /\ station \in StationKinds
    /\ memoryCache = EmptyCache
    /\ sourcePreference = "hybrid"
    /\ metarData = Nul
    /\ windborneData = Nul
    /\ metarMetadata = [metarAttempted |-> FALSE, metarUnavailable |-> FALSE]
    /\ response = Nul
    /\ wpc = "start"
    /\ liveUpstream = "notcalled"
    /\ histUpstream = "notcalled"
    /\ weatherHttp = 0

\* one request: getUnifiedWeather(stationId, stationInfo, sourcePreference)
GetUnifiedWeather ==
    \E pref \in {"metar", "windborne", "hybrid"} :
    \E lo \in LiveOutcomesFor(pref, station, memoryCache, now) :
    \E ho \in HistOutcomes(pref, memoryCache, now) :
        LET live == LiveAttempt(pref, station, memoryCache, now, lo)
            hist == HistAttempt(pref, live.cache, now,
                                [kind |-> ho.kind, points |-> PayloadAt(ho.raw, now)])
        IN /\ sourcePreference' = pref
           /\ metarData' = live.metarData
           /\ metarMetadata' = live.meta
           /\ liveUpstream' = live.upstream
           /\ windborneData' = hist.windborneData
           /\ histUpstream' = hist.upstream
           /\ memoryCache' = hist.cache
           /\ response' = UnifiedResult(pref, live.metarData, hist.windborneData,
                                        live.meta, now)
           /\ weatherHttp' = getWeather([kind |-> "return",
                                         value |-> UnifiedResult(pref, live.metarData,
                                                       hist.windborneData, live.meta,
                                                       now)])
           /\ wpc' = "done"
           /\ UNCHANGED <<now, station>>
           /\ UNCHANGED <<flightVars, otherVars>>

\* a minute passes; the locals of the finished request are gone
Tick ==
    /\ now + 2 <= MaxClock
    /\ now' = now + 2
    /\ sourcePreference' = "hybrid"
    /\ metarData' = Nul
    /\ windborneData' = Nul
    /\ metarMetadata' = [metarAttempted |-> FALSE, metarUnavailable |-> FALSE]
    /\ response' = Nul
    /\ wpc' = "start"
    /\ liveUpstream' = "notcalled"
    /\ histUpstream' = "notcalled"
    /\ weatherHttp' = 0
    /\ UNCHANGED <<station, memoryCache>>
    /\ UNCHANGED <<flightVars, otherVars>>

NextWeather == GetUnifiedWeather \/ Tick

SpecWeather == InitWeather /\ [][NextWeather]_vars

(***************************************************************************)
(* Claims about the fusion (SpecMerge)                                     *)
(***************************************************************************)
\* what the arguments of the fusion are, said without the fusion's own code
LiveAgeKnown == metarData # Nul /\ IsNum(metarData.timestamp)
LiveAgeMinutes == ((now - metarData.timestamp.v) + 1) \div 2
LiveIsFresh == LiveAgeKnown /\ LiveAgeMinutes < 30
HistExists == windborneData # Nul /\ Len(windborneData.points) > 0
HistLast == windborneData.points[Len(windborneData.points)]
HistAgeMinutes == ((now - HistLast.timestamp.v) + 1) \div 2
HistIsFresh == HistExists /\ HistAgeMinutes < 30

CurrentIsLive ==
    /\ response # Nul
    /\ response.current # Nul
    /\ response.current.source = "METAR"
    /\ response.current.timestamp = metarData.timestamp
CurrentIsHistLast ==
    /\ response # Nul
    /\ response.current # Nul
    /\ response.current.source = "WindBorne"
    /\ response.current.timestamp = HistLast.timestamp

\* C1: in hybrid mode `current` is chosen by first match: fresh live sample
\* (isRealTime), else fresh latest historical sample (isRealTime), else the
\* stale live sample (not real time), else the latest historical sample (not
\* real time), else the result is null.
C1_SelectionOrder ==
    wpc = "done" =>
        IF LiveIsFresh THEN CurrentIsLive /\ response.isRealTime
        ELSE IF HistIsFresh THEN CurrentIsHistLast /\ response.isRealTime
        ELSE IF metarData # Nul THEN CurrentIsLive /\ ~response.isRealTime
        ELSE IF HistExists THEN CurrentIsHistLast /\ ~response.isRealTime
        ELSE response = Nul

\* live age 10 min, historical latest age 45 min: live was selected, real time
C1_Witness ==
    /\ wpc = "done"
    /\ LiveAgeKnown /\ LiveAgeMinutes = 10
    /\ HistExists /\ HistAgeMinutes = 45
    /\ CurrentIsLive /\ response.isRealTime

\* C2: when a fresh live sample is primary, the label is `hybrid` only if a
\* historical series exists, and the live label (`METAR`) when none exists.
C2_LabelClaim ==
    (wpc = "done" /\ LiveIsFresh) =>
        /\ response # Nul
        /\ response.source = (IF HistExists THEN "hybrid" ELSE "METAR")

\* the number of entries of a series at a timestamp
CountAt(points, ts) == Cardinality({i \in 1..Len(points) : points[i].timestamp = ts})

HistPoints == IF windborneData # Nul THEN windborneData.points ELSE <<>>

\* C4: `points` is the historical series, with the live sample inserted exactly
\* when a fresh live sample is primary, and the insertion leaves only one entry
\* at the live sample's timestamp.
C4_PointsClaim ==
    (wpc = "done" /\ response # Nul) =>
        /\ ~LiveIsFresh => response.points = HistPoints
        /\ LiveIsFresh =>
              /\ \E i \in 1..Len(response.points) : response.points[i].source = "METAR"
              /\ CountAt(response.points, metarData.timestamp) = 1

(***************************************************************************)
(* Claims about the weather service (SpecWeather)                          *)
(***************************************************************************)
\* C3: a non-null result of getUnifiedWeather has a `current` that is present
\* and is the live sample with age < 30 min or the last sample of the
\* historical series; otherwise the result is null.
C3_CurrentClaim ==
    (wpc = "done" /\ response # Nul) =>
        /\ response.current # Nul
        /\ \/ CurrentIsLive /\ LiveIsFresh
           \/ HistExists /\ CurrentIsHistLast

\* C5: a historical payload that fails structural validation ends the request
\* (hybrid or historical-only) in an error, never in a normal result or null.
C5_MalformedClaim ==
    (wpc = "done" /\ histUpstream = "malformed") => response.t = "error"

\* C6: when the live provider was attempted and gave no sample while the
\* service has historical data, the result is built from the historical data
\* only and carries metarAttempted = true and metarUnavailable = true.
C6_LiveUnavailable ==
    (/\ wpc = "done"
     /\ sourcePreference \in {"metar", "hybrid"}
     /\ metarData = Nul
     /\ HistExists) =>
        /\ response.t = "weather"
        /\ CurrentIsHistLast
        /\ response.points = windborneData.points
        /\ response.metarAttempted
        /\ response.metarUnavailable

\* the live provider failed for a resolvable identifier, historical data was served
C6_Witness ==
    /\ wpc = "done"
    /\ station = "icao"
    /\ liveUpstream = "error"
    /\ metarData = Nul
    /\ HistExists
    /\ response.t = "weather"
    /\ CurrentIsHistLast
    /\ response.metarUnavailable

\* C25: in every non-null result, for every source preference, the top-level
\* dataAge and isRealTime equal those of `current`, and isRealTime is true
\* exactly when the age is known and below 30 minutes, an age of 0 included.
C25_AgeClaim ==
    (wpc = "done" /\ response # Nul /\ response.current # Nul) =>
        /\ response.dataAge = response.current.dataAge
        /\ response.isRealTime = response.current.isRealTime
        /\ response.isRealTime <=>
               (IsNum(response.current.dataAge)
                   /\ response.current.dataAge.v < 30)

\* C26: a live sample handed to the fusion, freshly fetched or out of the
\* cache, is less than 120 s old and so fresh; in hybrid mode it is `current`
\* with isRealTime = true, and the stale-live branch is never taken.
C26_LiveAlwaysFresh ==
    (wpc = "done" /\ metarData # Nul) =>
        /\ LiveAgeKnown
        /\ (now - metarData.timestamp.v) * 30 < MetarTtl
        /\ LiveIsFresh
        /\ sourcePreference = "hybrid" =>
               /\ CurrentIsLive
               /\ response.isRealTime
               /\ response.current.isRealTime
               /\ response.source # "METAR"

\* a cache hit one minute after the fetch, beside a fresh historical series
C26_Witness ==
    /\ wpc = "done"
    /\ sourcePreference = "hybrid"
    /\ liveUpstream = "notcalled"
    /\ metarData # Nul
    /\ now - metarData.timestamp.v = 2
    /\ HistIsFresh
    /\ CurrentIsLive
    /\ response.isRealTime

\* C27: in every non-null hybrid or live-only result, metarUnavailable is true
\* if and only if no live sample was obtained, by identifier or by coordinates.
C27_UnavailableClaim ==
    (wpc = "done" /\ response # Nul /\ sourcePreference \in {"metar", "hybrid"}) =>
        (response.metarUnavailable <=> metarData = Nul)

\* C29: when the historical provider answers 429 during a weather request,
\* the controller answers HTTP 429.
C29_RateLimitClaim ==
    (wpc = "done" /\ histUpstream = "ratelimited") => weatherHttp = 429

(***************************************************************************)
(* Claims about the flight service (SpecFlights)                           *)
(***************************************************************************)
\* every step of the chain was attempted and failed
AllStepsFailed == Len(errors) = 3 + Len(ProxyNames)

\* C7: getFlights ends in a hard failure exactly when every step of the chain
\* failed; exhaustion is never a successful empty list.
C7_ExhaustionClaim ==
    fpc = "done" => (flightsResult.kind = "throw" <=> AllStepsFailed)

\* C8: a 429 of the primary provider on the direct call, with a retry header
\* of N seconds, reaches the caller as RATE_LIMITED with retryAfterSeconds = N
\* and the controller answers 429 with that number.
C8_RateLimitClaim ==
    (/\ fpc = "done"
     /\ primaryAnswer.status = 429
     /\ IsNum(primaryAnswer.retryAfter)) =>
        /\ flightsResult.kind = "throw"
        /\ flightsResult.type = "RATE_LIMITED"
        /\ flightsResult.retryAfterSeconds = primaryAnswer.retryAfter
        /\ http.status = 429
        /\ http.retryAfterSeconds = primaryAnswer.retryAfter

\* C9: every returned flight has numeric in-range coordinates, an altitude
\* that is present and below 5000 m, and a distance that is present and at
\* most 50 km.
C9_OutputClaim ==
    (fpc = "done" /\ flightsResult.kind = "return") =>
        \A i \in 1..Len(flightsResult.flights) :
            LET f == flightsResult.flights[i]
            IN /\ IsNum(f.lat) /\ f.lat.v >= -900 /\ f.lat.v <= 900
               /\ IsNum(f.lng) /\ f.lng.v >= -1800 /\ f.lng.v <= 1800
               /\ IsNum(f.altitude) /\ f.altitude.v < 5000
               /\ IsNum(f.distanceToStation) /\ f.distanceToStation.v <= 50000

\* C10: the list returned by getFlights is in ascending order of
\* distanceToStation, a distance of exactly 0 included.
C10_SortedClaim ==
    (fpc = "done" /\ flightsResult.kind = "return") =>
        \A i \in 1..(Len(flightsResult.flights) - 1) :
            flightsResult.flights[i].distanceToStation.v
                <= flightsResult.flights[i + 1].distanceToStation.v

(***************************************************************************)
(* utils/aviation: the risk scorer.  Wind in knots, visibility in tenths   *)
(* of a statute mile, data age in minutes, altitude in metres and in       *)
(* hundredths of a foot (altitude * 3.28), speed in thousandths of a knot. *)
(***************************************************************************)
\* Math.hypot on the vectors drawn, all of which have an integer length
Hypot(x, y) == CHOOSE r \in 0..(x * x + y * y) : r * r = x * x + y * y

\* a plausible slip: the components are tested with !wind_x || !wind_y, so
\* that a calm component counts as missing
getWindData_ZeroIsNull(wind_x, wind_y) ==
    IF OrElse(wind_x, Nul) = Nul \/ OrElse(wind_y, Nul) = Nul THEN Nul
    ELSE [t |-> "object", speed |-> Hypot(wind_x.v, wind_y.v)]

\* lines 4-16; the direction is not read by the scorer
getWindData(wind_x, wind_y) ==
    IF wind_x = Nul \/ wind_y = Nul THEN Nul
    ELSE [t |-> "object", speed |-> Hypot(wind_x.v, wind_y.v)]

\* lines 55-57: the locals of calculateLandingSafety
AgeOf(wp) == IF wp.dataAge # Undef THEN wp.dataAge ELSE Nul
GustOf(wp) == OrElse(wp.wind_gust, Nul)
VisibilityOf(wp) == OrElse(wp.visibility, Nul)

\* line 64
EffectiveSpeed(wind, windGust) ==
    IF windGust # Nul /\ windGust.v > wind.speed THEN windGust.v ELSE wind.speed

\* a plausible slip: the gust escalation is added without the guard of line 89
WindContribution_DoubleCount(wp) ==
    LET wind == getWindData(wp.wind_x, wp.wind_y)
        windGust == GustOf(wp)
    IN IF wind # Nul
       THEN LET effectiveSpeed == EffectiveSpeed(wind, windGust)
            IN (IF effectiveSpeed > 25 THEN 3
                ELSE IF effectiveSpeed > 15 THEN 1 ELSE 0)
               + (IF windGust # Nul /\ windGust.v > wind.speed + 5 THEN 1 ELSE 0)
       ELSE 1

\* lines 62-97: what the wind adds to riskScore
WindContribution(wp) ==
    LET wind == getWindData(wp.wind_x, wp.wind_y)
        windGust == GustOf(wp)
    IN IF wind # Nul
       THEN LET effectiveSpeed == EffectiveSpeed(wind, windGust)
            IN (IF effectiveSpeed > 25 THEN 3
                ELSE IF effectiveSpeed > 15 THEN 1 ELSE 0)
               + (IF /\ windGust # Nul
                     /\ windGust.v > wind.speed + 5
                     /\ ~(effectiveSpeed > 15)
                  THEN 1 ELSE 0)
       ELSE 1

\* lines 99-110: what the visibility adds (1 SM = 10 tenths, 3 SM = 30 tenths)
VisibilityContribution(wp) ==
    LET visibility == VisibilityOf(wp)
    IN IF visibility # Nul
       THEN IF visibility.v < 10 THEN 2
            ELSE IF visibility.v < 30 THEN 1 ELSE 0
       ELSE 0

\* a plausible slip: a missing data age is scored like a recent one
AgeContribution_MissingIsFresh(wp) ==
    LET dataAge == AgeOf(wp)
    IN IF dataAge # Nul
       THEN IF dataAge.v > 60 THEN 2
            ELSE IF dataAge.v > 30 THEN 1 ELSE 0
       ELSE 0

\* lines 112-126: what the data age adds
AgeContribution(wp) ==
    LET dataAge == AgeOf(wp)
    IN IF dataAge # Nul
       THEN IF dataAge.v > 60 THEN 2
            ELSE IF dataAge.v > 30 THEN 1 ELSE 0
       ELSE 1

\* a plausible slip: a score of 1 is taken for safe
LevelOf_OneIsSafe(riskScore, dataAge) ==
    LET byAge == IF dataAge # Nul /\ dataAge.v < 30 THEN "high" ELSE "medium"
    IN IF riskScore >= 4 THEN [risk |-> "DANGER", confidence |-> "high"]
       ELSE IF riskScore >= 2 THEN [risk |-> "CAUTION", confidence |-> byAge]
       ELSE [risk |-> "SAFE", confidence |-> byAge]

\* lines 128-144: the level and the confidence of a score
LevelOf(riskScore, dataAge) ==
    LET byAge == IF dataAge # Nul /\ dataAge.v < 30 THEN "high" ELSE "medium"
    IN IF riskScore >= 4 THEN [risk |-> "DANGER", confidence |-> "high"]
       ELSE IF riskScore >= 2 THEN [risk |-> "CAUTION", confidence |-> byAge]
       ELSE IF riskScore = 1 THEN [risk |-> "CAUTION", confidence |-> "low"]
       ELSE [risk |-> "SAFE", confidence |-> byAge]

\* lines 45-156
calculateLandingSafety(wp) ==
    IF wp = Nul
    THEN [risk |-> "UNKNOWN", confidence |-> "low", riskScore |-> Undef,
          windSpeed |-> Undef, windGust |-> Undef, visibility |-> Undef,
          dataAge |-> Undef]
    ELSE LET wind == getWindData(wp.wind_x, wp.wind_y)
             riskScore == WindContribution(wp) + VisibilityContribution(wp)
                          + AgeContribution(wp)
             level == LevelOf(riskScore, AgeOf(wp))
         IN [risk |-> level.risk,
             confidence |-> level.confidence,
             riskScore |-> Num(riskScore),
             windSpeed |-> IF wind # Nul THEN OrElse(Num(wind.speed), Nul) ELSE Nul,
             windGust |-> GustOf(wp),
             visibility |-> VisibilityOf(wp),
             dataAge |-> AgeOf(wp)]

\* the result of arithmetic on undefined
NaN == [t |-> "nan", v |-> 0]

\* x < k in JavaScript: false when x is NaN
JsLess(x, k) == IsNum(x) /\ x.v < k

\* flight.altitude * 3.28, in hundredths of a foot: null counts as 0
AltitudeFt(altitude) ==
    CASE IsNum(altitude) -> Num(altitude.v * 328)
      [] altitude = Nul -> Num(0)
      [] OTHER -> NaN

\* line 175: flight.velocity ? flight.velocity * 1.944 : 0, in thousandths of a knot
SpeedKt(velocity) == IF IsNum(velocity) /\ velocity.v # 0 THEN velocity.v * 1944 ELSE 0

\* lines 181-208: [operationalRisk, flightStatus] from the altitude bands
OperationalRisk(fl) ==
    LET altitudeFt == AltitudeFt(fl.altitude)
    IN IF fl.altitude = Nul \/ (IsNum(fl.altitude) /\ fl.altitude.v <= 0)
       THEN [risk |-> "LANDED", flightStatus |-> "LANDED"]
       ELSE IF JsLess(altitudeFt, 50000)
       THEN [risk |-> "DANGER", flightStatus |-> "CRITICAL"]
       ELSE IF JsLess(altitudeFt, 100000)
       THEN [risk |-> "CAUTION", flightStatus |-> "LOW"]
       ELSE [risk |-> "SAFE", flightStatus |-> "NORMAL"]

\* line 222-224: riskLevels[x] || 0
riskLevels(x) ==
    CASE x = "CAUTION" -> 1
      [] x = "DANGER" -> 2
      [] OTHER -> 0

\* a plausible slip: the weather risk replaces the operational risk
CombineRisk_WeatherOnly(operationalRisk, weatherRisk) == weatherRisk

\* lines 213-230: the higher of the two risks
CombineRisk(operationalRisk, weatherRisk) ==
    IF riskLevels(weatherRisk) > riskLevels(operationalRisk)
    THEN weatherRisk ELSE operationalRisk

\* lines 232-245: the low-altitude wind overrides
WindOverride(combinedRisk, altitudeFt, wa) ==
    LET low == JsLess(altitudeFt, 100000)
    IN IF low /\ wa.windSpeed # Nul /\ wa.windSpeed.v > 25 THEN "DANGER"
       ELSE IF low /\ wa.windSpeed # Nul /\ wa.windSpeed.v > 15 /\ combinedRisk = "SAFE"
       THEN "CAUTION"
       ELSE combinedRisk

\* lines 247-255: the low-altitude visibility override
VisibilityOverride(combinedRisk, altitudeFt, wa) ==
    IF wa.visibility # Nul /\ wa.visibility.v < 10 /\ JsLess(altitudeFt, 100000)
    THEN CASE combinedRisk = "SAFE" -> "CAUTION"
           [] combinedRisk = "CAUTION" -> "DANGER"
           [] OTHER -> combinedRisk
    ELSE combinedRisk

\* lines 164-269
calculateFlightRisk(fl, weatherData) ==
    IF fl = Nul
    THEN [risk |-> "UNKNOWN", operationalRisk |-> "UNKNOWN", weatherRisk |-> "none",
          confidence |-> "low", flightStatus |-> "UNKNOWN",
          altitude |-> Undef, speed |-> 0]
    ELSE LET altitudeFt == AltitudeFt(fl.altitude)
             op == OperationalRisk(fl)
         IN IF weatherData # Nul /\ op.risk # "LANDED"
            THEN LET wa == calculateLandingSafety(weatherData)
                     combined == CombineRisk(op.risk, wa.risk)
                 IN [risk |-> VisibilityOverride(WindOverride(combined, altitudeFt, wa),
                                                 altitudeFt, wa),
                     operationalRisk |-> op.risk,
                     weatherRisk |-> wa.risk,
                     confidence |-> wa.confidence,
                     flightStatus |-> op.flightStatus,
                     altitude |-> altitudeFt,
                     speed |-> SpeedKt(fl.velocity)]
            ELSE [risk |-> op.risk,
                  operationalRisk |-> op.risk,
                  weatherRisk |-> "none",
                  confidence |-> "medium",
                  flightStatus |-> op.flightStatus,
                  altitude |-> altitudeFt,
                  speed |-> SpeedKt(fl.velocity)]

(***************************************************************************)
(* The scorer applied to drawn inputs                                      *)
(***************************************************************************)
\* weather points: wind vectors of length 0, 10, 15, 16, 25 and 26 kt and a
\* missing wind; gusts; visibilities of 0, 0.5, 1, 2.9 and 3 statute miles and
\* a missing visibility; data ages on both sides of 30 and 60 minutes
WeatherPoints ==
    {[wind_x |-> w[1], wind_y |-> w[2], wind_gust |-> g, visibility |-> v,
      dataAge |-> a] :
        w \in {<<Nul, Nul>>, <<Num(0), Num(0)>>, <<Num(6), Num(8)>>,
               <<Num(9), Num(12)>>, <<Num(16), Num(0)>>, <<Num(15), Num(20)>>,
               <<Num(24), Num(10)>>},
        g \in {Nul, Num(5), Num(6), Num(15), Num(16), Num(22), Num(26)},
        v \in {Nul, Num(0), Num(5), Num(10), Num(29), Num(30)},
        a \in {Undef, Nul, Num(0), Num(29), Num(30), Num(31), Num(60), Num(61)}}

\* flights at altitudes on both sides of 0 m, 500 ft (152.4 m) and 1000 ft (304.9 m)
ScoredFlights ==
    {[altitude |-> a, velocity |-> v] :
        a \in {Nul, Undef, Num(-5), Num(0), Num(100), Num(152), Num(153),
               Num(304), Num(305), Num(2000)},
        v \in {Nul, Num(60)}}

InitScore ==
    /\ spc = "start"
    /\ weatherPoint \in WeatherPoints \cup {Nul}
    /\ flight \in ScoredFlights \cup {Nul}
    /\ assessment = Nul
    /\ flightRisk = Nul
    /\ WeatherIdle
    /\ FlightsIdle
    /\ ApproachIdle
    /\ FetchIdle
    /\ AppIdle

CalculateLandingSafety ==
    /\ spc = "start"
    /\ assessment' = calculateLandingSafety(weatherPoint)
    /\ spc' = "safety"
    /\ UNCHANGED <<weatherPoint, flight, flightRisk>>
    /\ UNCHANGED <<weatherVars, flightVars, approachVars, lastFetch, appVars>>

CalculateFlightRisk ==
    /\ spc = "start"
    /\ flightRisk' = calculateFlightRisk(flight, weatherPoint)
    /\ spc' = "risk"
    /\ UNCHANGED <<weatherPoint, flight, assessment>>
    /\ UNCHANGED <<weatherVars, flightVars, approachVars, lastFetch, appVars>>

NextScore == CalculateLandingSafety \/ CalculateFlightRisk

SpecScore == InitScore /\ [][NextScore]_vars

(***************************************************************************)
(* Claims about the risk scorer (SpecScore)                                *)
(***************************************************************************)
Scored == spc = "safety" /\ weatherPoint # Nul

AgeKnownFresh == IsNum(weatherPoint.dataAge) /\ weatherPoint.dataAge.v < 30

\* C11: score >= 4 is Danger/High; 2 or 3 is Caution, High if the age is known
\* and < 30 else Medium; 1 is Caution/Low; 0 is Safe, High if the age is known
\* and < 30 else Medium.
C11_LevelMapping ==
    Scored =>
        LET score == assessment.riskScore.v
            byAge == IF AgeKnownFresh THEN "high" ELSE "medium"
        IN /\ score >= 0
           /\ score >= 4 => assessment.risk = "DANGER" /\ assessment.confidence = "high"
           /\ score \in {2, 3} =>
                  assessment.risk = "CAUTION" /\ assessment.confidence = byAge
           /\ score = 1 => assessment.risk = "CAUTION" /\ assessment.confidence = "low"
           /\ score = 0 => assessment.risk = "SAFE" /\ assessment.confidence = byAge

C11_Witness ==
    /\ Scored
    /\ assessment.riskScore = Num(1)
    /\ assessment.risk = "CAUTION"
    /\ assessment.confidence = "low"

RiskOrder(x) ==
    CASE x = "SAFE" -> 0
      [] x = "CAUTION" -> 1
      [] x = "DANGER" -> 2

MaxOf(a, b) == IF a >= b THEN a ELSE b

RiskCombined ==
    /\ spc = "risk"
    /\ flight # Nul
    /\ weatherPoint # Nul
    /\ flightRisk.operationalRisk # "LANDED"

\* C12: for a flight that is not landed, with weather supplied, the final risk
\* is never below the operational risk nor below the weather risk, and it is
\* their maximum when the altitude is at least 1000 ft.
C12_CombinedRisk ==
    RiskCombined =>
        LET final == RiskOrder(flightRisk.risk)
            op == RiskOrder(flightRisk.operationalRisk)
            wx == RiskOrder(flightRisk.weatherRisk)
        IN /\ final >= op
           /\ final >= wx
           /\ (IsNum(flight.altitude) /\ flight.altitude.v * 328 >= 100000) =>
                  final = MaxOf(op, wx)

C12_Witness ==
    /\ RiskCombined
    /\ flightRisk.operationalRisk = "CAUTION"
    /\ flightRisk.weatherRisk = "SAFE"
    /\ flightRisk.risk = "CAUTION"

WindPresent == weatherPoint.wind_x # Nul /\ weatherPoint.wind_y # Nul

BaseWind == Hypot(weatherPoint.wind_x.v, weatherPoint.wind_y.v)

GustKt == IF IsNum(weatherPoint.wind_gust) THEN weatherPoint.wind_gust.v ELSE 0

EffectiveWind == IF GustKt > BaseWind THEN GustKt ELSE BaseWind

\* C19: with wind data present the wind adds 3 when the effective wind exceeds
\* 25 kt, 1 when it is in (15, 25], 1 when it is at most 15 and the gust
\* exceeds the base by more than 5 kt, and 0 otherwise.
C19_WindOnce ==
    (Scored /\ WindPresent) =>
        assessment.riskScore.v - VisibilityContribution(weatherPoint)
                               - AgeContribution(weatherPoint)
            = IF EffectiveWind > 25 THEN 3
              ELSE IF EffectiveWind > 15 THEN 1
              ELSE IF GustKt > BaseWind + 5 THEN 1
              ELSE 0

C19_Witness ==
    /\ Scored
    /\ weatherPoint.wind_x = Num(16)
    /\ weatherPoint.wind_y = Num(0)
    /\ weatherPoint.wind_gust = Num(22)
    /\ assessment.riskScore.v = 1 + VisibilityContribution(weatherPoint)
                                  + AgeContribution(weatherPoint)

\* C20: whenever the sample carries a visibility value, 0 included, the
\* visibility adds 2 below 1 SM, 1 from 1 SM to below 3 SM, and 0 otherwise.
C20_VisibilityClaim ==
    (Scored /\ IsNum(weatherPoint.visibility)) =>
        assessment.riskScore.v - WindContribution(weatherPoint)
                               - AgeContribution(weatherPoint)
            = IF weatherPoint.visibility.v < 10 THEN 2
              ELSE IF weatherPoint.visibility.v < 30 THEN 1
              ELSE 0

ClaimedWind ==
    IF ~WindPresent THEN 1
    ELSE IF EffectiveWind > 25 THEN 3
    ELSE IF EffectiveWind > 15 THEN 1
    ELSE IF GustKt > BaseWind + 5 THEN 1
    ELSE 0

ClaimedAge ==
    LET age == weatherPoint.dataAge
    IN IF ~IsNum(age) THEN 1
       ELSE IF age.v > 60 THEN 2
       ELSE IF age.v > 30 THEN 1
       ELSE 0

\* C21: the score is the sum of the wind contribution (1 when the wind is
\* missing), the visibility contribution and the age contribution, the age
\* adding 2 above 60 min, 1 in (30, 60], 0 up to 30 and 1 when missing; a wind
\* of 26 kt alone with an age below 30 scores 3 (Caution), and with a missing
\* age scores 4 (Danger).
C21_ScoreSum ==
    Scored =>
        LET score == assessment.riskScore.v
            alone == /\ WindPresent
                     /\ BaseWind = 26
                     /\ weatherPoint.wind_gust = Nul
                     /\ weatherPoint.visibility = Nul
        IN /\ score = ClaimedWind + VisibilityContribution(weatherPoint) + ClaimedAge
           /\ (alone /\ AgeKnownFresh) => score = 3 /\ assessment.risk = "CAUTION"
           /\ (alone /\ ~IsNum(weatherPoint.dataAge)) =>
                  score = 4 /\ assessment.risk = "DANGER"

C21_Witness ==
    /\ Scored
    /\ WindPresent
    /\ BaseWind = 26
    /\ weatherPoint.wind_gust = Nul
    /\ weatherPoint.visibility = Nul
    /\ weatherPoint.dataAge = Undef
    /\ assessment.riskScore = Num(4)
    /\ assessment.risk = "DANGER"

LowAndWindy ==
    /\ RiskCombined
    /\ JsLess(AltitudeFt(flight.altitude), 100000)
    /\ WindPresent
    /\ EffectiveWind > 25

\* C22: a flight that is not landed and below 1000 ft, with weather whose wind
\* exceeds 25 kt through the base speed or through a gust above the base, is
\* always Danger.
C22_HighWindClaim == LowAndWindy => flightRisk.risk = "DANGER"

\* the drawn point with its base wind replaced
Raised(w) == [weatherPoint EXCEPT !.wind_x = w[1], !.wind_y = w[2]]

RaisedWinds ==
    {w \in {<<Num(0), Num(0)>>, <<Num(6), Num(8)>>, <<Num(9), Num(12)>>,
             <<Num(16), Num(0)>>, <<Num(15), Num(20)>>, <<Num(24), Num(10)>>} :
        Hypot(w[1].v, w[2].v) >= BaseWind}

NeverLower(w) ==
    LET raised == calculateLandingSafety(Raised(w))
    IN /\ raised.riskScore.v >= assessment.riskScore.v
       /\ RiskOrder(raised.risk) >= RiskOrder(assessment.risk)

GustOnlyEscalation == GustKt > BaseWind + 5 /\ ~(EffectiveWind > 15)

\* C24 as stated: with gust, visibility and data age fixed, raising the base
\* wind never lowers the score or the level.
C24_MonotoneClaim ==
    (Scored /\ WindPresent) => \A w \in RaisedWinds : NeverLower(w)

\* C24: with gust, visibility and data age fixed, raising the base wind never
\* lowers the score or the level unless the gust-only escalation applied at
\* the lower base wind (gust more than 5 kt above it, effective wind at most
\* 15 kt).
C24_MonotoneWithoutGustStep ==
    (Scored /\ WindPresent /\ ~GustOnlyEscalation) =>
        \A w \in RaisedWinds : NeverLower(w)

C24_Witness ==
    /\ Scored
    /\ weatherPoint.wind_x = Num(6)
    /\ weatherPoint.wind_y = Num(8)
    /\ weatherPoint.wind_gust = Num(15)
    /\ ~GustOnlyEscalation
    /\ calculateLandingSafety(Raised(<<Num(24), Num(10)>>)).riskScore.v
           = assessment.riskScore.v + 3

(***************************************************************************)
(* utils/aviation: the approach classifier.  Angles in degrees, distances  *)
(* in thousandths of a nautical mile, eta in hundredths of a minute.       *)
(***************************************************************************)
\* lines 336-350, for the placements drawn: two points on one meridian
\* (atan2(0, x) is 0 for x >= 0 and 180 for x < 0) or two points on the
\* equator (atan2(y, 0) is 90 or -90, normalised to 270)
calculateBearing(lat1, lng1, lat2, lng2) ==
    CASE lng1 = lng2 -> IF lat2 < lat1 THEN 180 ELSE 0
      [] lat1 = 0 /\ lat2 = 0 -> IF lng2 > lng1 THEN 90 ELSE 270

\* lines 360-373, for the same placements: the haversine distance is the arc
\* of the great circle, 3440.065 * pi / 1800 = 6.004046 nm per tenth of a degree
calculateDistanceNm(lat1, lng1, lat2, lng2) ==
    CASE lng1 = lng2 -> (Abs(lat2 - lat1) * 6004046) \div 1000
      [] lat1 = 0 /\ lat2 = 0 -> (Abs(lng2 - lng1) * 6004046) \div 1000

\* x == null
LooseNull(x) == x = Nul \/ x = Undef

\* lines 383-387: the defaults of the options
OptionOr(x, d) == IF x = Undef THEN d ELSE x.v

\* lines 431-435
AngleDifference(flightTrack, bearingToStation) ==
    LET d == Abs(flightTrack - bearingToStation)
    IN IF d > 180 THEN 360 - d ELSE d

\* a plausible slip: the tolerance is not tightened with the distance
EffectiveMaxAngle_NoBands(maxAngleDifference, distance) == maxAngleDifference

\* lines 437-445
EffectiveMaxAngle(maxAngleDifference, distance) ==
    IF distance > 30000 THEN (IF maxAngleDifference < 15 THEN maxAngleDifference ELSE 15)
    ELSE IF distance > 15000
    THEN (IF maxAngleDifference < 20 THEN maxAngleDifference ELSE 20)
    ELSE maxAngleDifference

\* lines 451-458
Eta(isApproaching, distance, velocity) ==
    IF isApproaching /\ IsNum(velocity) /\ velocity.v # 0 /\ velocity.v * 1944 > 0
    THEN Num((distance * 6000) \div (velocity.v * 1944))
    ELSE Nul

Rejected(reason, altitude, distance, bearingToStation) ==
    [isApproaching |-> FALSE, reason |-> reason, altitude |-> altitude,
     distance |-> distance, bearingToStation |-> bearingToStation,
     angleDifference |-> Undef, eta |-> Undef]

\* line 400
TooLow(altitudeFt, minAltitude) == JsLess(altitudeFt, minAltitude * 100)

\* a plausible slip: the distance in nautical miles is taken for kilometres
TooFar_Kilometres(distance, maxDistance) == distance * 1852 > maxDistance * 1000 * 1000

\* line 417
TooFar(distance, maxDistance) == distance > maxDistance * 1000

\* lines 382-469
isFlightApproaching(fl, st, opt) ==
    LET maxAngleDifference == OptionOr(opt.maxAngleDifference, 45)
        maxDistance == OptionOr(opt.maxDistance, 100)
        minAltitude == OptionOr(opt.minAltitude, 500)
    IN IF \/ fl = Nul \/ st = Nul
          \/ LooseNull(fl.lat) \/ LooseNull(fl.lng)
          \/ LooseNull(st.lat) \/ LooseNull(st.lng)
       THEN Rejected("Invalid data", Undef, Undef, Undef)
       ELSE LET altitudeFt == AltitudeFt(fl.altitude)
            IN IF TooLow(altitudeFt, minAltitude)
               THEN Rejected("Too low/landed", altitudeFt, Undef, Undef)
               ELSE LET bearingToStation ==
                            calculateBearing(fl.lat.v, fl.lng.v, st.lat.v, st.lng.v)
                        distance ==
                            calculateDistanceNm(fl.lat.v, fl.lng.v, st.lat.v, st.lng.v)
                    IN IF TooFar(distance, maxDistance)
                       THEN Rejected("Too far", Undef, Num(distance), Undef)
                       ELSE IF LooseNull(fl.track)
                       THEN Rejected("No heading data", Undef, Num(distance),
                                     Num(bearingToStation))
                       ELSE LET angleDifference ==
                                    AngleDifference(fl.track.v, bearingToStation)
                                isApproaching ==
                                    angleDifference
                                        <= EffectiveMaxAngle(maxAngleDifference, distance)
                            IN [isApproaching |-> isApproaching,
                                reason |-> IF isApproaching
                                           THEN "Heading towards station"
                                           ELSE "Not heading towards station",
                                altitude |-> altitudeFt,
                                distance |-> Num(distance),
                                bearingToStation |-> Num(bearingToStation),
                                angleDifference |-> Num(angleDifference),
                                eta |-> Eta(isApproaching, distance, fl.velocity)]

\* the sort key of line 492: approachData.distance || 999, in thousandths
ApproachKey(f) == OrElse(f.approachData.distance, Num(999 * 1000)).v

\* Array.prototype.sort is stable: insertion after the entries that are not greater
InsertByApproachKey(fs, f) ==
    LET before == {i \in 1..Len(fs) : ApproachKey(fs[i]) <= ApproachKey(f)}
        k == IF before = {} THEN 0
             ELSE CHOOSE i \in before : \A j \in before : j <= i
    IN SubSeq(fs, 1, k) \o <<f>> \o SubSeq(fs, k + 1, Len(fs))

RECURSIVE SortByApproachKey(_)
SortByApproachKey(fs) ==
    IF Len(fs) = 0 THEN <<>>
    ELSE InsertByApproachKey(SortByApproachKey(SubSeq(fs, 1, Len(fs) - 1)),
                             fs[Len(fs)])

IsApproachingEntry(f) == f.approachData.isApproaching

\* lines 478-494
filterApproachingFlights(fls, st, opt) ==
    IF st = Nul THEN <<>>
    ELSE SortByApproachKey(SelectSeq(
             [i \in 1..Len(fls) |->
                 [flight |-> fls[i],
                  approachData |-> isFlightApproaching(fls[i], st, opt)]],
             IsApproachingEntry))

(***************************************************************************)
(* The classifier applied to drawn inputs                                  *)
(***************************************************************************)
\* the flights classified one by one.  Positions: at the station; 12, 18,
\* 30.02, 42, 96 and 102 nm south of it; 18 nm north of it; 18 nm west of it;
\* and without a position.  Altitudes: 0 ft (null), NaN (undefined), 498.6 ft,
\* 501.8 ft, 3280 ft.
ApproachFlights ==
    {[lat |-> p[1], lng |-> p[2], altitude |-> a, track |-> tr, velocity |-> v] :
        p \in {<<Num(0), Num(0)>>, <<Num(-2), Num(0)>>, <<Num(-3), Num(0)>>,
               <<Num(-5), Num(0)>>, <<Num(-7), Num(0)>>, <<Num(-16), Num(0)>>,
               <<Num(-17), Num(0)>>, <<Num(3), Num(0)>>, <<Num(0), Num(-3)>>,
               <<Nul, Nul>>},
        a \in {Nul, Undef, Num(152), Num(153), Num(1000)},
        tr \in {Nul, Num(0), Num(15), Num(16), Num(18), Num(20), Num(21),
                Num(45), Num(46), Num(350)},
        v \in {Nul, Num(100)}}

\* the lists handed to the filter: single flights, and pairs of flights at 0,
\* 12 and 42 nm that are on course, nearly on course, or off course
FlightLists ==
    LET paired == {[lat |-> Num(l), lng |-> Num(0), altitude |-> Num(1000),
                    track |-> Num(tr), velocity |-> Nul] :
                       l \in {0, -2, -7}, tr \in {0, 350}}
                  \cup {[lat |-> Num(-2), lng |-> Num(0), altitude |-> Num(1000),
                         track |-> Num(46), velocity |-> Nul]}
    IN {<<>>} \cup {<<f>> : f \in ApproachFlights \cup {Nul}}
              \cup {<<f, g>> : f \in paired, g \in paired}

NoOptions == [maxAngleDifference |-> Undef, maxDistance |-> Undef, minAltitude |-> Undef]

InitApproach ==
    /\ apc = "start"
    /\ flights \in FlightLists
    \* the station, a station without coordinates, and no station
    /\ target \in {[lat |-> Num(0), lng |-> Num(0)], [lat |-> Nul, lng |-> Nul], Nul}
    \* the defaults, a tolerance below both caps, one between the caps, and a
    \* stricter distance and altitude
    /\ options \in {NoOptions,
                    [NoOptions EXCEPT !.maxAngleDifference = Num(10)],
                    [NoOptions EXCEPT !.maxAngleDifference = Num(18)],
                    [NoOptions EXCEPT !.maxDistance = Num(40),
                                      !.minAltitude = Num(1000)]}
    /\ entry = Nul
    /\ approaching = <<>>
    /\ WeatherIdle
    /\ FlightsIdle
    /\ ScoreIdle
    /\ FetchIdle
    /\ AppIdle

IsFlightApproaching ==
    /\ apc = "start"
    /\ \E i \in 1..Len(flights) :
        entry' = [flight |-> flights[i],
                  approachData |-> isFlightApproaching(flights[i], target, options)]
    /\ apc' = "classified"
    /\ UNCHANGED <<flights, target, options, approaching>>
    /\ UNCHANGED <<weatherVars, flightVars, scoreVars, lastFetch, appVars>>

FilterApproachingFlights ==
    /\ apc = "start"
    /\ approaching' = filterApproachingFlights(flights, target, options)
    /\ apc' = "filtered"
    /\ UNCHANGED <<flights, target, options, entry>>
    /\ UNCHANGED <<weatherVars, flightVars, scoreVars, lastFetch, appVars>>

NextApproach == IsFlightApproaching \/ FilterApproachingFlights

SpecApproach == InitApproach /\ [][NextApproach]_vars

(***************************************************************************)
(* Claims about the approach classifier (SpecApproach)                     *)
(***************************************************************************)
\* the classification went as far as comparing the angle with the tolerance
Compared == apc = "classified" /\ IsNum(entry.approachData.angleDifference)

CallerTolerance == OptionOr(options.maxAngleDifference, 45)

MinOf(a, b) == IF a <= b THEN a ELSE b

\* C13: beyond 30 nm the tolerance is min(caller tolerance, 15), from above
\* 15 nm to 30 nm it is min(caller tolerance, 20), up to 15 nm it is the caller
\* tolerance, and isApproaching is true exactly when angleDifference is within it.
C13_ToleranceBands ==
    Compared =>
        LET d == entry.approachData.distance.v
            effective == IF d > 30000 THEN MinOf(CallerTolerance, 15)
                         ELSE IF d > 15000 THEN MinOf(CallerTolerance, 20)
                         ELSE CallerTolerance
        IN entry.approachData.isApproaching
               <=> entry.approachData.angleDifference.v <= effective

\* about 40 nm out, 18 degrees off course, default tolerance: not approaching
C13_Witness ==
    /\ Compared
    /\ options = NoOptions
    /\ entry.approachData.distance.v > 40000
    /\ entry.approachData.distance.v < 45000
    /\ entry.approachData.angleDifference = Num(18)
    /\ ~entry.approachData.isApproaching

\* a flight with a position, classified with the default configuration against
\* the station, flying exactly the bearing from its position to the station
\* (the station is due north of every flight south of it: bearing 0) and at
\* most 100 nm (17 tenths of a degree are 102 nm) away
OnCourseWithinRange ==
    /\ apc = "classified"
    /\ options = NoOptions
    /\ target # Nul
    /\ IsNum(target.lat)
    /\ entry.flight # Nul
    /\ IsNum(entry.flight.lat)
    /\ entry.flight.lng = target.lng
    /\ entry.flight.lat.v < target.lat.v
    /\ target.lat.v - entry.flight.lat.v < 17
    /\ entry.flight.track = Num(0)

\* C14: every flight whose track equals the bearing to the station and whose
\* distance is at most 100 nm is approaching under the default configuration.
C14_OnCourseClaim == OnCourseWithinRange => entry.approachData.isApproaching

\* C14 as amended: every such flight whose altitude is at least 500 ft
\* (altitude * 3.28) is approaching under the default configuration.
C14_OnCourseAboveMinimum ==
    (/\ OnCourseWithinRange
     /\ IsNum(entry.flight.altitude)
     /\ entry.flight.altitude.v * 328 >= 50000) =>
        /\ entry.approachData.isApproaching
        /\ entry.approachData.angleDifference = Num(0)

C14_Witness ==
    /\ OnCourseWithinRange
    /\ entry.flight.altitude = Num(153)
    /\ entry.approachData.distance.v > 90000
    /\ entry.approachData.isApproaching

Classified == apc = "classified"

CoordinatesPresent ==
    /\ entry.flight # Nul
    /\ target # Nul
    /\ ~LooseNull(entry.flight.lat)
    /\ ~LooseNull(entry.flight.lng)
    /\ ~LooseNull(target.lat)
    /\ ~LooseNull(target.lng)

\* the altitude is known and is at least minAltitude feet (null counts as 0 ft)
AltitudeAtLeastMinimum ==
    LET ft == IF entry.flight.altitude = Nul THEN Num(0)
              ELSE IF IsNum(entry.flight.altitude)
              THEN Num(entry.flight.altitude.v * 328)
              ELSE Undef
    IN IsNum(ft) /\ ft.v >= OptionOr(options.minAltitude, 500) * 100

WithinMaxDistance ==
    calculateDistanceNm(entry.flight.lat.v, entry.flight.lng.v,
                        target.lat.v, target.lng.v)
        <= OptionOr(options.maxDistance, 100) * 1000

TrackPresent == ~LooseNull(entry.flight.track)

FirstFailingCheck ==
    IF ~CoordinatesPresent THEN "Invalid data"
    ELSE IF ~AltitudeAtLeastMinimum THEN "Too low/landed"
    ELSE IF ~WithinMaxDistance THEN "Too far"
    ELSE IF ~TrackPresent THEN "No heading data"
    ELSE "none"

\* C23: isApproaching is true only if the coordinates are present, the
\* altitude is at least minAltitude feet, the distance is at most maxDistance
\* and a track is present; when one of these fails the result is not
\* approaching, with the reason of the first failing check in the order
\* coordinates, altitude, distance, track.
C23_GatesClaim ==
    Classified =>
        /\ entry.approachData.isApproaching => FirstFailingCheck = "none"
        /\ FirstFailingCheck # "none" =>
               /\ ~entry.approachData.isApproaching
               /\ entry.approachData.reason = FirstFailingCheck

(***************************************************************************)
(* The cached fetchers called one at a time (getHistoricalWeather,         *)
(* getMETAR, getStations) while the clock runs                             *)
(***************************************************************************)
\* a plausible slip: a failed fetch of the directory caches an empty list
getStations_CachesFailure(cache, n, outcome) ==
    LET cached == getCache(cache, "windborne:stations", n)
        stations == [t |-> "stations"]
    IN IF cached # Nul
       THEN [kind |-> "return", value |-> cached, cache |-> cache,
             upstream |-> "notcalled"]
       ELSE IF outcome = "ok"
       THEN [kind |-> "return", value |-> stations,
             cache |-> setCache(cache, "windborne:stations", stations,
                                StationsTtl, n),
             upstream |-> "ok"]
       ELSE [kind |-> "throw", value |-> "Failed to fetch stations",
             cache |-> setCache(cache, "windborne:stations", [t |-> "empty"],
                                StationsTtl, n),
             upstream |-> outcome]

\* windborneService.js lines 8-31.  The station directory answers a list that
\* passes StationSchema ("ok"), a list that fails it, or an error.
getStations(cache, n, outcome) ==
    LET cached == getCache(cache, "windborne:stations", n)
        stations == [t |-> "stations"]
    IN IF cached # Nul
       THEN [kind |-> "return", value |-> cached, cache |-> cache,
             upstream |-> "notcalled"]
       ELSE IF outcome = "ok"
       THEN [kind |-> "return", value |-> stations,
             cache |-> setCache(cache, "windborne:stations", stations,
                                StationsTtl, n),
             upstream |-> "ok"]
       ELSE [kind |-> "throw", value |-> "Failed to fetch stations",
             cache |-> cache, upstream |-> outcome]

\* payloads of the historical provider: up to MaxPoints points observed at
\* the ticks 0 and 1, in any order, with temperatures on both sides of the two
\* limits or missing
LimitPayloads ==
    RawSeries({0, 1},
              {Nul, Num(-101), Num(-100), Num(-99), Num(149), Num(150), Num(151)},
              MaxPoints)

StampedAt(raw) == [i \in 1..Len(raw) |-> Point(raw[i][1], raw[i][2], "none")]

InitCache ==
    /\ AppIdle
    /\ WeatherIdle
    /\ FlightsIdle
    /\ ScoreIdle
    /\ ApproachIdle
    /\ lastFetch = NoFetch

CacheFrame ==
    /\ UNCHANGED <<sourcePreference, metarData, windborneData, metarMetadata,
                   response, wpc, station, liveUpstream, histUpstream, weatherHttp>>
    /\ UNCHANGED <<flightVars, scoreVars, approachVars, appVars>>

GetHistoricalWeather ==
    /\ \E o \in IF getCache(memoryCache, "windborne:weather", now) = Nul
               THEN {[kind |-> "ok", raw |-> s] : s \in {<<>>, <<<<0, Num(70)>>>>}}
                        \cup {[kind |-> k, raw |-> <<>>] : k \in HistFailures}
               ELSE {NotCalled} :
        LET r == getHistoricalWeather(memoryCache, now,
                                      [kind |-> o.kind, points |-> StampedAt(o.raw)])
        IN /\ memoryCache' = r.cache
           /\ lastFetch' = [key |-> "windborne:weather", at |-> now,
                            held |-> memoryCache["windborne:weather"],
                            upstream |-> r.upstream, kind |-> r.kind,
                            raw |-> StampedAt(o.raw), value |-> r.value]
    /\ UNCHANGED now
    /\ CacheFrame

GetMETAR ==
    /\ \E o \in IF CachedLiveUsable(getCache(memoryCache, "metar:icao", now), now)
               THEN {"notcalled"} ELSE LiveOutcomes :
        LET r == getMETAR(memoryCache, now, o)
        IN /\ memoryCache' = r.cache
           /\ lastFetch' = [key |-> "metar:icao", at |-> now,
                            held |-> memoryCache["metar:icao"],
                            upstream |-> r.upstream, kind |-> "return",
                            raw |-> <<>>, value |-> r.value]
    /\ UNCHANGED now
    /\ CacheFrame

GetStations ==
    /\ \E o \in IF getCache(memoryCache, "windborne:stations", now) = Nul
               THEN {"ok", "invalid", "error"} ELSE {"notcalled"} :
        LET r == getStations(memoryCache, now, o)
        IN /\ memoryCache' = r.cache
           /\ lastFetch' = [key |-> "windborne:stations", at |-> now,
                            held |-> memoryCache["windborne:stations"],
                            upstream |-> r.upstream, kind |-> r.kind,
                            raw |-> <<>>, value |-> r.value]
    /\ UNCHANGED now
    /\ CacheFrame

\* 30 seconds pass
CacheTick ==
    /\ \/ now < MaxCacheClock
       \/ now >= (StationsTtl \div 30) - 1 /\ now < (StationsTtl \div 30) + 1
    /\ now' = now + 1
    /\ UNCHANGED <<memoryCache, lastFetch>>
    /\ CacheFrame

\* all but the last 30 seconds of a day pass
CacheSleep ==
    /\ now <= 1
    /\ now' = now + (StationsTtl \div 30) - 1
    /\ UNCHANGED <<memoryCache, lastFetch>>
    /\ CacheFrame

NextCache == GetHistoricalWeather \/ GetMETAR \/ GetStations \/ CacheTick \/ CacheSleep

SpecCache == InitCache /\ [][NextCache]_vars

(***************************************************************************)
(* getHistoricalWeather on one upstream payload, with nothing cached       *)
(***************************************************************************)
InitHistorical ==
    /\ AppIdle
    /\ WeatherIdle
    /\ FlightsIdle
    /\ ScoreIdle
    /\ ApproachIdle
    /\ lastFetch \in {[NoFetch EXCEPT !.raw = StampedAt(s)] : s \in LimitPayloads}

NormalizeHistoricalWeather ==
    /\ lastFetch.key = "none"
    /\ LET r == getHistoricalWeather(memoryCache, now,
                                     [kind |-> "ok", points |-> lastFetch.raw])
       IN /\ memoryCache' = r.cache
          /\ lastFetch' = [lastFetch EXCEPT !.key = "windborne:weather",
                                            !.upstream = r.upstream,
                                            !.kind = r.kind,
                                            !.value = r.value]
    /\ UNCHANGED now
    /\ CacheFrame

NextHistorical == NormalizeHistoricalWeather

SpecHistorical == InitHistorical /\ [][NextHistorical]_vars

(***************************************************************************)
(* Claims about the cache (SpecCache)                                      *)
(***************************************************************************)
\* the TTLs of the claim, in ticks of 30 s: 300 s, 120 s, 86400 s
TtlTicks(key) ==
    CASE key = "windborne:weather" -> 10
      [] key = "metar:icao" -> 4
      [] key = "windborne:stations" -> 2880

\* what a fetcher hands out of a cache entry: getMETAR caches {data, timestamp}
CachedValue(key, item) == IF key = "metar:icao" THEN item.data.data ELSE item.data

\* C15: a successful upstream fetch populates its key with the TTL of that
\* key; a request made while an entry has not expired returns the cached value
\* without an upstream call; an entry whose expiry has passed is not returned,
\* and the request calls upstream again.
C15_CacheTtl ==
    lastFetch.key # "none" =>
        /\ lastFetch.upstream = "ok" =>
               /\ memoryCache[lastFetch.key].t = "entry"
               /\ memoryCache[lastFetch.key].expiry
                      = lastFetch.at + TtlTicks(lastFetch.key)
        /\ (lastFetch.held.t = "entry" /\ lastFetch.at < lastFetch.held.expiry) =>
               /\ lastFetch.upstream = "notcalled"
               /\ lastFetch.kind = "return"
               /\ lastFetch.value = CachedValue(lastFetch.key, lastFetch.held)
        /\ (lastFetch.held.t = "entry" /\ lastFetch.at >= lastFetch.held.expiry) =>
               lastFetch.upstream # "notcalled"

\* a request served from the cache 4.5 minutes after the entry was written
C15_Witness ==
    /\ lastFetch.key = "windborne:weather"
    /\ lastFetch.held.t = "entry"
    /\ lastFetch.at = lastFetch.held.expiry - 1
    /\ lastFetch.upstream = "notcalled"

\* the fetch that lastFetch describes called upstream and did not get data:
\* an error, a 404/400, a payload that fails validation, an empty body
FetchFailed(f) == f.key # "none" /\ f.upstream \notin {"none", "notcalled", "ok"}

\* C28: a fetch of getHistoricalWeather, getStations or getMETAR that ends in
\* an error, a no-data outcome, a validation failure or an empty response
\* writes no cache entry and replaces none, and the next request for the same
\* key calls upstream again.
C28_FailureLeavesCache ==
    [][/\ (FetchFailed(lastFetch') /\ now' = now) => memoryCache' = memoryCache
       /\ (FetchFailed(lastFetch) /\ lastFetch'.key = lastFetch.key) =>
              lastFetch'.upstream # "notcalled"]_vars

\* a fetch failed for a key whose earlier entry had expired: the entry stands
C28_Witness ==
    /\ FetchFailed(lastFetch)
    /\ lastFetch.held.t = "entry"
    /\ lastFetch.at >= lastFetch.held.expiry
    /\ memoryCache[lastFetch.key] = lastFetch.held

(***************************************************************************)
(* Claims about the historical normalization (SpecHistorical)              *)
(***************************************************************************)
InClosedRange(pt) == IsNum(pt.temperature) /\ pt.temperature.v >= -100
                                           /\ pt.temperature.v <= 150

Normalized == lastFetch.key = "windborne:weather" /\ lastFetch.kind = "return"

\* C18: every point of the returned series has -100 <= temperature <= 150, and
\* every upstream point with a temperature in that closed range is retained.
C18_TemperatureRange ==
    Normalized =>
        /\ \A i \in 1..Len(lastFetch.value.points) :
               InClosedRange(lastFetch.value.points[i])
        /\ \A i \in 1..Len(lastFetch.raw) :
               InClosedRange(lastFetch.raw[i]) =>
                   \E j \in 1..Len(lastFetch.value.points) :
                       lastFetch.value.points[j] = lastFetch.raw[i]

(***************************************************************************)
(* Claims about the fallback chain (SpecFlights)                           *)
(***************************************************************************)
ChainOrder ==
    <<"direct", "url-auth", "allorigins", "corsproxy", "corssh", "adsb-exchange">>

\* the steps gone through so far: those that failed, then the one that succeeded
Attempted ==
    IF fpc = "done" /\ fetched.step # "none"
    THEN Append(errors, fetched.step) ELSE errors

\* C16: the steps are gone through in the fixed order direct, url-auth,
\* allorigins, corsproxy, corssh, adsb-exchange; a step comes only after every
\* earlier one failed, none comes after a success, a failed step hands over to
\* the next one, and the chain ends after at most six steps with data or
\* with every step failed.
C16_ChainOrder ==
    /\ Len(Attempted) <= 6
    /\ Attempted = SubSeq(ChainOrder, 1, Len(Attempted))
    /\ fpc = "direct" => errors = <<>>
    /\ fpc = "urlauth" => Len(errors) = 1
    /\ fpc = "proxy" => Len(errors) = 1 + proxyIndex
    /\ fpc = "adsb" => Len(errors) = 5
    /\ fpc = "done" => (fetched.step # "none" \/ errors = ChainOrder)

C16_Witness ==
    /\ fpc = "done"
    /\ fetched.step = "adsb-exchange"
    /\ errors = SubSeq(ChainOrder, 1, 5)

\* C17: a step whose 200 answer fails structural validation counts as failed:
\* the payload the flight list is built from is always structurally valid.
C17_InvalidPayloadClaim ==
    (fpc = "done" /\ fetched.step # "none") => SchemaValid(fetched.data)

(***************************************************************************)
(* The client App: station selection and the weather requests it sends.    *)
(* A response is the continuation of a fetch after its await; it runs      *)
(* whenever the server answers, whatever was selected in the meantime.     *)
(***************************************************************************)
InitApp ==
    /\ AppIdle
    /\ WeatherIdle
    /\ FlightsIdle
    /\ ScoreIdle
    /\ ApproachIdle
    /\ FetchIdle

AppFrame == UNCHANGED <<weatherVars, flightVars, scoreVars, approachVars, lastFetch>>

\* onStationSelect(station), lines 75-100, with the effect on selectedStation
\* of lines 102-128 up to the fetch: null clears the selection and the
\* weather; a station is normalized into a new object, so the effect runs
\* and sends a request for its id
OnStationSelect ==
    /\ \/ /\ selectedStation' = Nul
          /\ stateWeatherData' = Nul
          /\ UNCHANGED pendingWeather
       \/ \E id \in {"KJFK", "KLAX", "KSFO"} :
             /\ BagCardinality(pendingWeather) < MaxPending
             /\ selectedStation' = [id |-> id]
             /\ pendingWeather' = pendingWeather (+) SetToBag({id})
             /\ UNCHANGED stateWeatherData
    /\ UNCHANGED <<timeIndex, compareIndexA, compareIndexB>>
    /\ AppFrame

\* handleRefreshWeather, lines 201-203: a request for the selected station
HandleRefreshWeather ==
    /\ selectedStation # Nul
    /\ BagCardinality(pendingWeather) < MaxPending
    /\ pendingWeather' = pendingWeather (+) SetToBag({selectedStation.id})
    /\ UNCHANGED <<selectedStation, stateWeatherData, timeIndex, compareIndexA,
                   compareIndexB>>
    /\ AppFrame

\* the rest of fetchWeather (lines 111-125) and of handleRefreshWeather (lines
\* 204-215): the server answers a request with a payload for the requested
\* station holding 0, 1 or 8 points, with a status that is not ok, or not at all
WeatherResponse ==
    /\ \E id \in BagToSet(pendingWeather) :
        /\ pendingWeather' = pendingWeather (-) SetToBag({id})
        /\ \/ \E n \in {0, 1, 8} :
                LET lastIdx == IF n > 0 THEN n - 1 ELSE 0
                IN /\ stateWeatherData' = [station |-> id, points |-> n]
                   /\ timeIndex' = lastIdx
                   /\ compareIndexA' = Num(lastIdx)
                   /\ compareIndexB' = Num(IF lastIdx - 6 > 0 THEN lastIdx - 6 ELSE 0)
           \/ UNCHANGED <<stateWeatherData, timeIndex, compareIndexA, compareIndexB>>
    /\ UNCHANGED selectedStation
    /\ AppFrame

NextApp == HandleRefreshWeather \/ WeatherResponse \/ OnStationSelect

SpecApp == InitApp /\ [][NextApp]_vars

(***************************************************************************)
(* Claims about the client App (SpecApp)                                   *)
(***************************************************************************)
\* a response for the selected station is still awaited
AwaitingSelected ==
    selectedStation # Nul /\ BagIn(selectedStation.id, pendingWeather)

\* C30: under any interleaving of station selections and weather responses,
\* the weatherData held in state belongs to the currently selected station; a
\* response to a request issued for an earlier station never overwrites or
\* stands in for the new station's weather.  (The time a newly selected
\* station waits for its own response is not held against the claim.)
C30_WeatherOfSelectedClaim ==
    (stateWeatherData # Nul /\ ~AwaitingSelected) =>
        /\ selectedStation # Nul
        /\ stateWeatherData.station = selectedStation.id

====
